---- MODULE Spec2Model ----
(***************************************************************************)
(* Portfolio recommendation core of PortfolioOptimizationDashboard:        *)
(* the mean-variance optimizer, the marginal-utility engine, the feature   *)
(* assembler and the recommend-trades request handler.                     *)
(*                                                                         *)
(* Numbers are fixed point integers:                                       *)
(*   weights        in units of 1/WUnit  (0.01, so eps = 1 unit)           *)
(*   returns, mu    in units of 1/RUnit  (per mille)                       *)
(*   covariances    in units of 1/CUnit  (1e-4)                            *)
(*   prices, budget in cents                                               *)
(* A JavaScript number that may be NaN or infinite is a record             *)
(* [fin, v]: Fin(v), NaN, PosInf, NegInf; undefined is Undef.              *)
(***************************************************************************)
EXTENDS Integers, Sequences, FiniteSets, TLC

VARIABLES
    pc,           \* position of the operation being modelled
    copy,         \* which copy of a duplicated source file is running (1, 2)
    muVec,        \* expected returns, per mille
    covMat,       \* covariance matrix, 1e-4
    targetReturn, \* the target return handed to the optimizer / assembler
    wStar,        \* the optimizer's weight vector
    failure,      \* "" or the error the operation ended with
    universe,     \* tickers, index-aligned with muVec / covMat
    heldIdx,      \* zero-based indices of the held tickers
    metricsArr,   \* what computeMarginalUtilities returned
    candidates,   \* the tickers to score, in universe order
    marginalMap,  \* ticker -> {deltaSharpe, deltaCvar}
    fundamentals, \* ticker -> {momentum6m, momentum12m, beta, divYield, logCap}
    X,            \* the feature matrix, one row per candidate
    body,         \* the request body as sent
    budget,       \* Number(body.budget ?? 0), in cents
    heldTickers,  \* the normalised tickers of the holdings
    latestPrices, \* ticker -> last close, in cents
    featureOrder, \* the column names read from recommend_columns.json
    scores,       \* the scorer's output, one per row of X
    response,     \* the response sent, or NoResponse
    calls,        \* the pipeline steps the request has run, in order
    weekly,       \* ticker -> what fetchWeeklySeries gives computeStats
    seriesMap,    \* the seriesMap of computeStats: ticker -> its series
    alignedDates, \* the shared calendar of computeStats, ascending
    returns,      \* the return series of the kept instruments, in 1e-4
    provider,     \* what the data provider answers, per ticker
    cache0,       \* the cache files when the two requests arrive
    cache,        \* the cache files: key -> content
    reqs,         \* the two requests in flight: their locals and results
    holdings,     \* the rows of the dashboard: ticker text and shown price
    priceCache,   \* the dashboard's priceCache: ticker -> price, in cents
    pending       \* the price fetches in flight: row index, ticker, await

optVars  == <<muVec, covMat, targetReturn, wStar>>
muVars   == <<universe, heldIdx, metricsArr>>
featVars == <<candidates, marginalMap, fundamentals, X>>
reqVars  == <<body, budget, heldTickers, latestPrices, featureOrder, scores,
              response, calls>>

statVars == <<weekly, seriesMap, alignedDates, returns>>
concVars == <<provider, cache0, cache, reqs>>
dashVars == <<holdings, priceCache, pending>>

vars == <<pc, copy, failure, optVars, muVars, featVars, reqVars, statVars,
          concVars, dashVars>>

----------------------------------------------------------------------------
(* Units and small helpers                                                 *)

WUnit == 100

\* s[lo] + ... + s[hi], summed by halves
RECURSIVE SumBetween(_, _, _)
SumBetween(s, lo, hi) ==
    IF lo > hi THEN 0
    ELSE IF lo = hi THEN s[lo]
    ELSE SumBetween(s, lo, (lo + hi) \div 2)
             + SumBetween(s, (lo + hi) \div 2 + 1, hi)

SumUpTo(s, n) == SumBetween(s, 1, n)

SumSeq(s) == SumUpTo(s, Len(s))

Dot(a, b) == SumSeq([i \in 1..Len(a) |-> a[i] * b[i]])

MinOf(S) == CHOOSE v \in S : \A u \in S : v <= u
MaxOf(S) == CHOOSE v \in S : \A u \in S : v >= u

Range(s) == {s[i] : i \in 1..Len(s)}

\* math.transpose of a list of rows
Transpose(rows) ==
    [i \in 1..Len(rows[1]) |-> [j \in 1..Len(rows) |-> rows[j][i]]]

\* x^T M x
Quad(x, M) == SumSeq([i \in 1..Len(x) |-> x[i] * Dot(M[i], x)])

----------------------------------------------------------------------------
(* JavaScript numbers that may be NaN, infinite or undefined               *)

\* a value is its kind k with, by kind, the number v, the characters s of
\* a string or the elements a of an array
Value(kind, n, chars, elems) == [k |-> kind, v |-> n, s |-> chars, a |-> elems]

Fin(n)  == Value("num", n, <<>>, <<>>)
NaN     == Value("NaN", 0, <<>>, <<>>)
PosInf  == Value("Infinity", 0, <<>>, <<>>)
NegInf  == Value("-Infinity", 0, <<>>, <<>>)
Undef   == Value("undefined", 0, <<>>, <<>>)
Null    == Value("null", 0, <<>>, <<>>)

\* Number.isFinite
IsFinite(x) == x.k = "num"

\* a - b
JsSub(a, b) ==
    IF IsFinite(a) /\ IsFinite(b) THEN Fin(a.v - b.v)
    ELSE IF a.k \in {"NaN", "undefined"} \/ b.k \in {"NaN", "undefined"} THEN NaN
    ELSE IF IsFinite(a) THEN (IF b.k = "Infinity" THEN NegInf ELSE PosInf)
    ELSE IF IsFinite(b) THEN a
    ELSE IF a.k = b.k THEN NaN
    ELSE a

\* -a
JsNeg(a) ==
    IF IsFinite(a) THEN Fin(0 - a.v)
    ELSE IF a.k = "Infinity" THEN NegInf
    ELSE IF a.k = "-Infinity" THEN PosInf
    ELSE NaN

RECURSIVE IsqrtIn(_, _, _)
IsqrtIn(n, lo, hi) ==
    IF lo >= hi THEN lo
    ELSE LET mid == (lo + hi + 1) \div 2
         IN  IF mid * mid <= n THEN IsqrtIn(n, mid, hi)
                               ELSE IsqrtIn(n, lo, mid - 1)

\* floor of the square root, for 0 <= n < 2^31
Isqrt(n) == IsqrtIn(n, 0, 46340)

\* Math.sqrt of a variance in 1e-8 units: the volatility in 1e-4 units
JsSqrt(n) == IF n < 0 THEN NaN ELSE Fin(Isqrt(n))

----------------------------------------------------------------------------
(* JavaScript values of a JSON body: strings are sequences of characters,  *)
(* an array is a sequence, an object is a function from its keys.         *)

Str(s) == Value("str", 0, s, <<>>)
Arr(a) == Value("array", 0, <<>>, a)

Lowers == <<"a", "b", "c", "d", "e", "f", "g", "h", "i", "j", "k", "l", "m",
            "n", "o", "p", "q", "r", "s", "t", "u", "v", "w", "x", "y", "z">>
Uppers == <<"A", "B", "C", "D", "E", "F", "G", "H", "I", "J", "K", "L", "M",
            "N", "O", "P", "Q", "R", "S", "T", "U", "V", "W", "X", "Y", "Z">>
Digits == <<"0", "1", "2", "3", "4", "5", "6", "7", "8", "9">>
Whitespace == {" ", "\t", "\n"}

\* String.prototype.toUpperCase
toUpperCase(s) ==
    [i \in 1..Len(s) |->
        IF \E j \in 1..Len(Lowers) : Lowers[j] = s[i]
        THEN Uppers[CHOOSE j \in 1..Len(Lowers) : Lowers[j] = s[i]]
        ELSE s[i]]

\* String.prototype.trim
trim(s) ==
    LET keep == {i \in 1..Len(s) : s[i] \notin Whitespace}
    IN  IF keep = {} THEN <<>> ELSE SubSeq(s, MinOf(keep), MaxOf(keep))

\* the value of a digit character
DigitOf ==
    [c \in {Digits[i] : i \in 1..10} |-> CHOOSE d \in 0..9 : Digits[d + 1] = c]

RECURSIVE DecimalValue(_)
DecimalValue(s) ==
    IF s = <<>> THEN 0
    ELSE 10 * DecimalValue(SubSeq(s, 1, Len(s) - 1)) + DigitOf[s[Len(s)]]

\* the numeric value of a string, for strings of digits, "Infinity", blank
\* strings and text that is no numeric literal; a string of digits spells
\* its quantity in the unit of the model
StringToNumber(s) ==
    LET t == trim(s)
    IN  IF t = <<>> THEN Fin(0)
        ELSE IF \A i \in 1..Len(t) : t[i] \in Range(Digits)
             THEN Fin(DecimalValue(t))
        ELSE IF t = <<"I", "n", "f", "i", "n", "i", "t", "y">> THEN PosInf
        ELSE NaN

\* Number(x).  An array is converted through its string, the join of its
\* elements by commas: the empty array gives "" and 0, an array of one
\* element gives what the string of that element gives (null and undefined
\* print as "", a nested array as its own join, an object as text that is
\* no number), and a longer array has a comma in its string and gives NaN.
RECURSIVE Number(_)
Number(x) ==
    CASE "k" \notin DOMAIN x -> NaN
      [] x.k \in {"num", "NaN", "Infinity", "-Infinity"} -> x
      [] x.k = "null" -> Fin(0)
      [] x.k = "str" -> StringToNumber(x.s)
      [] x.k = "array" /\ Len(x.a) = 0 -> Fin(0)
      [] x.k = "array" /\ Len(x.a) = 1 ->
           IF "k" \in DOMAIN x.a[1] /\ x.a[1].k = "undefined" THEN Fin(0)
           ELSE Number(x.a[1])
      [] OTHER -> NaN

\* a ?? b
Coalesce(a, b) == IF a.k \in {"undefined", "null"} THEN b ELSE a

\* a || b
OrElse(a, b) ==
    IF \/ a.k \in {"undefined", "null", "NaN"}
       \/ (a.k = "num" /\ a.v = 0)
       \/ (a.k = "str" /\ a.s = <<>>)
    THEN b ELSE a

----------------------------------------------------------------------------
(* quadprog.solveQP.  The package is not among the sources; what is here  *)
(* is its contract as the callers rely on it.  From quadprog.d.ts: the    *)
(* arguments (Dmat, dvec, Amat, bvec, meq) and a result with `solution`   *)
(* and, optionally, `message`.  From the comments of the callers          *)
(* (Optimizer.ts 29-51, part_003 29-59): it minimises                     *)
(* 1/2 x^T D x - d^T x subject to A^T x >= b, the first meq constraints   *)
(* being equalities.  From part_003 59-63: a result can carry a message   *)
(* and a solution together, so a problem the solver gives up on is        *)
(* reported in `message` and not by an exception.  The solution of a      *)
(* feasible problem is taken to the resolution QStep: a minimiser among   *)
(* the feasible vectors whose entries are multiples of QStep between QLo  *)
(* and QHi.  Nothing in the sources says which vector `solution` holds    *)
(* when the solver gives up; the model admits the unconstrained           *)
(* minimiser, the minimiser under the equalities alone and, for a D whose *)
(* factorisation fails, the zero vector.  What is concluded about the     *)
(* optimizer from this section is what its callers pass and what they do  *)
(* with the result, not which vector the solver picks.                    *)

QStep == 10
QLo == -1
QHi == 11

QGrid == {QStep * k : k \in QLo..QHi}
QVectors(n) == [1..n -> QGrid]

MsgInconsistent == "constraints are inconsistent, no solution!"
MsgNotPositiveDefinite ==
    "matrix D in quadratic function is not positive definite!"

\* D without its first row and column, after eliminating with the first
\* pivot
Eliminated(D) ==
    [i \in 1..(Len(D) - 1) |->
        [j \in 1..(Len(D) - 1) |->
            D[i + 1][j + 1] - (D[i + 1][1] * D[1][j + 1]) \div D[1][1]]]

\* the factorisation succeeds: every pivot is positive
RECURSIVE PositiveDefinite(_)
PositiveDefinite(D) ==
    \/ Len(D) = 0
    \/ D[1][1] > 0 /\ PositiveDefinite(Eliminated(D))

\* column j of Amat (Amat has one row per variable)
Column(Amat, j) == [i \in 1..Len(Amat) |-> Amat[i][j]]

ConstraintHolds(Amat, bvec, meq, j, x) ==
    IF j <= meq
    THEN Dot(Column(Amat, j), x) = bvec[j] * WUnit
    ELSE Dot(Column(Amat, j), x) >= bvec[j] * WUnit

\* twice the objective, times WUnit^2
Objective(Dmat, dvec, x) == Quad(x, Dmat) - 2 * WUnit * Dot(dvec, x)

Minimisers(Dmat, dvec, S) ==
    LET best == MinOf({Objective(Dmat, dvec, x) : x \in S})
    IN  {x \in S : Objective(Dmat, dvec, x) = best}

solveQP(Dmat, dvec, Amat, bvec, meq) ==
    LET n    == Len(Dmat)
        m    == Len(bvec)
        eqs  == {x \in QVectors(n) :
                    \A j \in 1..meq : ConstraintHolds(Amat, bvec, meq, j, x)}
        feas == {x \in eqs :
                    \A j \in (meq + 1)..m :
                        ConstraintHolds(Amat, bvec, meq, j, x)}
    IN  IF ~PositiveDefinite(Dmat)
        THEN {[solution |-> [i \in 1..n |-> 0],
               message |-> MsgNotPositiveDefinite]}
        ELSE IF feas # {}
        THEN {[solution |-> x, message |-> ""] :
                 x \in Minimisers(Dmat, dvec, feas)}
        ELSE {[solution |-> x, message |-> MsgInconsistent] :
                 x \in Minimisers(Dmat, dvec, QVectors(n))
                       \cup Minimisers(Dmat, dvec, eqs)}

----------------------------------------------------------------------------
(* Optimizer.ts: meanVarianceOptimization.  The value is the set of weight *)
(* vectors the call can return (one per answer of the solver).             *)

Ones(n) == [i \in 1..n |-> 1]
Zeros(n) == [i \in 1..n |-> 0]
EyeCols(n) == [i \in 1..n |-> [k \in 1..n |-> IF k = i THEN 1 ELSE 0]]

meanVarianceOptimization(muV, sigmaM, target) ==
    LET n    == Len(muV)
        Dmat == [i \in 1..n |-> [j \in 1..n |-> 2 * sigmaM[i][j]]]
        dvec == Zeros(n)
        Amat == Transpose(<<Ones(n), muV>> \o EyeCols(n))
        bvec == <<1, target>> \o Zeros(n)
        meq  == 1
    IN  {res.solution : res \in solveQP(Dmat, dvec, Amat, bvec, meq)}

\* the other copy of the optimizer: both equalities split into a pair of
\* inequalities, no meq
Negate(v) == [i \in 1..Len(v) |-> 0 - v[i]]

meanVarianceOptimizationSplit(muV, sigmaM, target) ==
    LET n    == Len(muV)
        Dmat == [i \in 1..n |-> [j \in 1..n |-> 2 * sigmaM[i][j]]]
        dvec == Zeros(n)
        A    == <<muV, Negate(muV), Ones(n), Negate(Ones(n))>> \o EyeCols(n)
        b    == <<target, 0 - target, 1, -1>> \o Zeros(n)
    IN  {res.solution : res \in solveQP(Dmat, dvec, Transpose(A), b, 0)}

----------------------------------------------------------------------------
(* featureEngineering.ts: portfolio helpers and computeMarginalUtilities.  *)
(* Means are in 1e-5 (weight unit times per mille), variances in 1e-8,     *)
(* volatilities in 1e-4, Sharpe ratios in 1e-4.                            *)

RISK_FREE == 43
CvarK == 20627
FEATURE_ORDER_BetaFirst ==
    <<"deltaSharpe", "deltaCvar", "beta", "mom6", "mom12", "divYield",
      "logCap", "targetReturn">>

FEATURE_ORDER ==
    <<"deltaSharpe", "deltaCvar", "mom6", "mom12", "beta", "divYield",
      "logCap", "targetReturn">>

portfolioVariance(w, cov) == Quad(w, cov)

portfolioReturn(w, muV) == Dot(w, muV)

\* (mean - RISK_FREE) / vol; a zero volatility divides by zero
sharpe(w, muV, cov) ==
    LET mean   == portfolioReturn(w, muV)
        vol    == JsSqrt(portfolioVariance(w, cov))
        excess == mean - RISK_FREE * WUnit
    IN  IF ~IsFinite(vol) THEN NaN
        ELSE IF vol.v = 0
             THEN (IF excess > 0 THEN PosInf
                   ELSE IF excess < 0 THEN NegInf ELSE NaN)
             ELSE Fin((excess * 1000) \div vol.v)

\* the square root of n / 1e8 in 1e-5: one more decimal digit than Isqrt,
\* found from the remainder of Isqrt
SqrtFine(n) ==
    LET s == Isqrt(n)
        r == n - s * s
    IN  10 * s + MaxOf({d \in 0..9 : 20 * s * d + d * d <= 100 * r})

\* a TypeError thrown by a call of something that is no function
TypeError == Value("TypeError", 0, <<>>, <<>>)

IsThrown(x) == x.k = "TypeError"

\* featureEngineering.ts: the mean and the standard deviation are computed,
\* then math.quantile is called; mathjs has no function of that name (its
\* quantile function is quantileSeq), so the call throws a TypeError and
\* the lines after it never run
cvarNorm(w, muV, cov) ==
    LET mean == portfolioReturn(w, muV)
        std  == JsSqrt(portfolioVariance(w, cov))
    IN  TypeError

\* the copy with normInv: std = sqrt(max(var, 1e-12)) and
\* -(mean - std * k), k = pdf(z) / (1 - alpha) = 2.0627 for alpha = 0.95.
\* Result in 1e-5.
cvarNormClamped(w, muV, cov) ==
    LET mean == portfolioReturn(w, muV)
        var_ == portfolioVariance(w, cov)
        std  == SqrtFine(IF var_ > 0 THEN var_ ELSE 0)
    IN  Fin(0 - (mean - (std * CvarK) \div 10000))

\* cvarNorm of the copy cp: 1 is featureEngineering.ts, 2 the copy with
\* normInv
Cvar(cp, w, muV, cov) ==
    IF cp = 1 THEN cvarNorm(w, muV, cov) ELSE cvarNormClamped(w, muV, cov)

eps == 1

\* wPert.findIndex((w) => w === Math.max(...wPert)), zero-based
Donor(w) == MinOf({i \in 0..(Len(w) - 1) : w[i + 1] = MaxOf(Range(w))})

\* the perturbed weights for the candidate at zero-based index idx
Perturbed(w, idx) ==
    LET donor == Donor(w)
        w1 == [w EXCEPT ![donor + 1] =
                  IF w[donor + 1] - eps > 0 THEN w[donor + 1] - eps ELSE 0]
    IN  [w1 EXCEPT ![idx + 1] = w1[idx + 1] + eps]

SkipHeldOffByOne(held, idx) == (idx + 1) \in held

SkipHeld(held, idx) == idx \in held

\* what a call gives: the metrics it returns, or threw when it throws
Returns(m) == [threw |-> FALSE, metrics |-> m]
Throws     == [threw |-> TRUE, metrics |-> <<>>]

\* metrics.push(entry) followed by the rest of the loop
Pushed(entry, rest) ==
    IF rest.threw THEN Throws ELSE Returns(<<entry>> \o rest.metrics)

\* the loop over the tickers from index idx on, with the two baseline values
\* computed before it
RECURSIVE MetricsFrom(_, _, _, _, _, _, _, _, _)
MetricsFrom(idx, w, muV, cov, tickers, held, cp, baseSharpe, baseCvar) ==
    IF idx >= Len(tickers) THEN Returns(<<>>)
    ELSE IF SkipHeld(held, idx)
         THEN MetricsFrom(idx + 1, w, muV, cov, tickers, held, cp,
                          baseSharpe, baseCvar)
         ELSE LET wPert == Perturbed(w, idx)
                  s  == sharpe(wPert, muV, cov)
                  cv == Cvar(cp, wPert, muV, cov)
              IN  IF IsThrown(cv) THEN Throws
                  ELSE Pushed([ticker      |-> tickers[idx + 1],
                               deltaSharpe |-> JsSub(s, baseSharpe),
                               deltaCvar   |-> JsSub(baseCvar, cv)],
                              MetricsFrom(idx + 1, w, muV, cov, tickers,
                                          held, cp, baseSharpe, baseCvar))

\* cp = 1: featureEngineering.ts; cp = 2: the copy with normInv.  The two
\* baseline values are computed first, so a cvarNorm that throws makes the
\* call throw even when every instrument is held.
computeMarginalUtilities(w, muV, cov, tickers, held, cp) ==
    LET baseSharpe == sharpe(w, muV, cov)
        baseCvar   == Cvar(cp, w, muV, cov)
    IN  IF IsThrown(baseCvar) THEN Throws
        ELSE MetricsFrom(0, w, muV, cov, tickers, held, cp,
                         baseSharpe, baseCvar)

----------------------------------------------------------------------------
(* featureEngineering.ts: toMarginalMap and buildFeatureMatrix.  An object *)
(* is a function from its keys; a missing key reads as undefined.          *)

Get(obj, key) == IF key \in DOMAIN obj THEN obj[key] ELSE Undef

\* Object.fromEntries(arr.map(m => [m.ticker, {...}])): a later entry for
\* the same ticker replaces an earlier one
toMarginalMap(arr) ==
    [t \in {arr[i].ticker : i \in 1..Len(arr)} |->
        LET last == MaxOf({i \in 1..Len(arr) : arr[i].ticker = t})
        IN  [f \in {"deltaSharpe", "deltaCvar"} |-> arr[last][f]]]

DefaultMarginal == [f \in {"deltaSharpe", "deltaCvar"} |-> Fin(0)]
DefaultFundamental ==
    [f \in {"momentum6m", "momentum12m", "beta", "divYield", "logCap"} |->
        Fin(0)]

FeatureRow(t, marginal, funds, target) ==
    LET m == IF t \in DOMAIN marginal THEN marginal[t] ELSE DefaultMarginal
        f == IF t \in DOMAIN funds THEN funds[t] ELSE DefaultFundamental
        row == [k \in Range(FEATURE_ORDER) |->
                  CASE k = "deltaSharpe"  -> Get(m, "deltaSharpe")
                    [] k = "deltaCvar"    -> Get(m, "deltaCvar")
                    [] k = "mom6"         -> Get(f, "momentum6m")
                    [] k = "mom12"        -> Get(f, "momentum12m")
                    [] k = "beta"         -> Get(f, "beta")
                    [] k = "divYield"     -> Get(f, "divYield")
                    [] k = "logCap"       -> Get(f, "logCap")
                    [] k = "targetReturn" -> target]
    IN  [i \in 1..Len(FEATURE_ORDER) |-> row[FEATURE_ORDER[i]]]

buildFeatureMatrixZeroTarget(cands, marginal, funds, target) ==
    [i \in 1..Len(cands) |-> FeatureRow(cands[i], marginal, funds, Fin(0))]

buildFeatureMatrix(cands, marginal, funds, target) ==
    [i \in 1..Len(cands) |-> FeatureRow(cands[i], marginal, funds, target)]

----------------------------------------------------------------------------
(* DataHelper.ts: fundamentals.  A weekly series is the sequence of its    *)
(* bars in ascending date order; closes and dividends are in cents, a      *)
(* momentum is in 1e-3, a dividend yield in 1e-4, beta in 1e-3, the market *)
(* capitalisation in millions and its logarithm in 1e-3.  A numeric text   *)
(* of the provider is the number it spells.                                *)

_toFloat(x, dflt) == LET v == Number(x) IN IF IsFinite(v) THEN v ELSE dflt

ttmDivYieldFromWeekly(ts) ==
    IF Len(ts) = 0 THEN Fin(0)
    ELSE LET lastClose == _toFloat(ts[Len(ts)].close, NaN)
         IN  IF ~IsFinite(lastClose) \/ lastClose.v <= 0 THEN Fin(0)
             ELSE LET from == IF Len(ts) > 52 THEN Len(ts) - 51 ELSE 1
                      divSum == SumSeq([i \in 1..(Len(ts) - from + 1) |->
                          _toFloat(Coalesce(ts[from + i - 1].dividend, Fin(0)),
                                   Fin(0)).v])
                      yield == (divSum * 10000) \div lastClose.v
                  IN  Fin(IF yield > 0 THEN yield ELSE 0)

momentumFromCloses(ts, weeks) ==
    IF Len(ts) < weeks + 1 THEN Fin(0)
    ELSE LET last == _toFloat(ts[Len(ts)].close, NaN)
             prev == _toFloat(ts[Len(ts) - weeks].close, NaN)
         IN  IF ~IsFinite(last) \/ ~IsFinite(prev) \/ prev.v <= 0 THEN Fin(0)
             ELSE Fin((last.v * 1000) \div prev.v - 1000)

RECURSIVE Log2Floor(_)
Log2Floor(x) == IF x < 2 THEN 0 ELSE 1 + Log2Floor(x \div 2)

\* Math.log of a capitalisation of x millions (x >= 1), in 1e-3 and to
\* within 1e-3:
\* ln(x * 1e6) = k ln 2 + ln m + 6 ln 10 with x = 2^k m, 1 <= m < 2, and
\* ln m = 2 atanh((m - 1) / (m + 1))
MathLog(x) ==
    LET k  == Log2Floor(x)
        m  == (x * 1024) \div (2 ^ k)
        y  == ((m - 1024) * 10000) \div (m + 1024)
        y2 == (y * y) \div 10000
        y3 == (y * y2) \div 10000
        y5 == (y3 * y2) \div 10000
        y7 == (y5 * y2) \div 10000
        lnm == 2 * (y + y3 \div 3 + y5 \div 5 + y7 \div 7)
    IN  (k * 693147 + lnm * 100 + 13815511) \div 1000

\* overview: ticker -> the provider's OVERVIEW object; series: ticker ->
\* the weekly series.  The sector is carried by the code and read by nobody.
getFundamentalMap(tickers, overview, series) ==
    [sym \in Range(tickers) |->
        LET o    == overview[sym]
            ts   == series[sym]
            mcap == _toFloat(Get(o, "MarketCapitalization"), NaN)
        IN  [beta     |-> _toFloat(Get(o, "Beta"), NaN),
             divYield |-> ttmDivYieldFromWeekly(ts),
             logCap   |-> IF IsFinite(mcap) /\ mcap.v > 0
                          THEN Fin(MathLog(mcap.v)) ELSE NaN,
             mom6     |-> momentumFromCloses(ts, 26),
             mom12    |-> momentumFromCloses(ts, 52)]]

----------------------------------------------------------------------------
(* The optimizer as a pure function: SpecMVO draws (mu, Sigma, target) and *)
(* the copy of the optimizer, and applies it.                              *)

MaxTargetIdx == 20

OptTargets == {10 * k : k \in 0..MaxTargetIdx}

Diag2(a, b) == <<(<<a, 0>>), (<<0, b>>)>>
Diag3(a, b, c) == <<(<<a, 0, 0>>), (<<0, b, 0>>), (<<0, 0, c>>)>>

OptInstances ==
    { [mu |-> <<80>>,          cov |-> <<(<<400>>)>>],
      [mu |-> <<50, 100>>,     cov |-> Diag2(400, 400)],
      [mu |-> <<50, 100>>,     cov |-> <<(<<400, 100>>), (<<100, 900>>)>>],
      [mu |-> <<50, 100, 150>>, cov |-> Diag3(600, 1000, 1500)],
      [mu |-> <<80, 120, 50>>,  cov |-> Diag3(400, 900, 200)] }

InRange(muV, target) ==
    /\ target >= MinOf(Range(muV))
    /\ target <= MaxOf(Range(muV))

\* the solver's resolution is enough for the problem: a target in range
\* is met exactly by some long-only vector of the grid
GridResolves(muV, target) ==
    InRange(muV, target) =>
        \E x \in QVectors(Len(muV)) :
            /\ \A i \in 1..Len(muV) : x[i] >= 0
            /\ SumSeq(x) = WUnit
            /\ Dot(muV, x) = target * WUnit

IdleMU == universe = <<>> /\ heldIdx = {} /\ metricsArr = <<>>

IdleStat ==
    weekly = <<>> /\ seriesMap = <<>> /\ alignedDates = <<>> /\ returns = <<>>

IdleConc == provider = <<>> /\ cache0 = <<>> /\ cache = <<>> /\ reqs = <<>>
IdleDash == holdings = <<>> /\ priceCache = <<>> /\ pending = <<>>

NoResponse == [status |-> 0, error |-> "", recommendations |-> <<>>,
               featureOrder |-> <<>>]

IdleReq ==
    /\ body = <<>>
    /\ budget = Fin(0)
    /\ heldTickers = {}
    /\ latestPrices = <<>>
    /\ featureOrder = <<>>
    /\ scores = <<>>
    /\ response = NoResponse
    /\ calls = <<>>

IdleFeat ==
    /\ candidates = <<>>
    /\ marginalMap = <<>>
    /\ fundamentals = <<>>
    /\ X = <<>>

Optimize ==
    /\ pc = "optimize"
    /\ \E w \in (IF copy = 1
                 THEN meanVarianceOptimization(muVec, covMat, targetReturn.v)
                 ELSE meanVarianceOptimizationSplit(muVec, covMat,
                                                    targetReturn.v)) :
            wStar' = w
    /\ pc' = "optimized"
    /\ UNCHANGED <<copy, muVec, covMat, targetReturn, failure, muVars,
                   featVars, reqVars,
                   statVars, concVars, dashVars>>

InitMVO ==
    /\ pc = "optimize"
    /\ copy \in {1, 2}
    /\ \E inst \in OptInstances : muVec = inst.mu /\ covMat = inst.cov
    /\ targetReturn \in {Fin(t) : t \in OptTargets}
    /\ GridResolves(muVec, targetReturn.v)
    /\ wStar = <<>>
    /\ failure = ""
    /\ IdleStat
    /\ IdleConc
    /\ IdleDash
    /\ IdleMU
    /\ IdleFeat
    /\ IdleReq

NextMVO == Optimize

SpecMVO == InitMVO /\ [][NextMVO]_vars

----------------------------------------------------------------------------
(* The marginal-utility engine as a pure function: SpecMU draws a          *)
(* baseline, (mu, Sigma), the held indices and the copy of the file.       *)

AMZN == <<"A", "M", "Z", "N">>
GOOG == <<"G", "O", "O", "G">>
JPM  == <<"J", "P", "M">>
MA   == <<"M", "A">>
XOM  == <<"X", "O", "M">>
CVX  == <<"C", "V", "X">>

UNIVERSE == <<AMZN, GOOG, JPM, MA, XOM, CVX>>

\* long-only weight vectors of the solver's grid
Baselines(n) ==
    {x \in QVectors(n) : (\A i \in 1..n : x[i] >= 0) /\ SumSeq(x) = WUnit}

\* the instances of the optimizer, two with an instrument whose price
\* never moved (zero variance), and two with instruments of equal expected
\* return and different risk
MUInstances ==
    OptInstances \cup
    { [mu |-> <<30, 100>>, cov |-> Diag2(0, 400)],
      [mu |-> <<43, 100, 60>>, cov |-> Diag3(0, 400, 900)],
      [mu |-> <<80, 80>>, cov |-> Diag2(900, 400)],
      [mu |-> <<60, 60, 100>>,
       cov |-> <<(<<900, 100, 0>>), (<<100, 400, 0>>), (<<0, 0, 1500>>)>>] }

IdleOpt == targetReturn = Fin(0)

\* a call of computeMarginalUtilities: its metrics, or the TypeError it
\* throws
MarginalUtilities ==
    /\ pc = "marginal"
    /\ LET res == computeMarginalUtilities(wStar, muVec, covMat, universe,
                                           heldIdx, copy)
       IN  /\ metricsArr' = res.metrics
           /\ failure' = IF res.threw THEN "TypeError" ELSE failure
    /\ pc' = "marginal-done"
    /\ UNCHANGED <<copy, optVars, universe, heldIdx, featVars,
                   reqVars,
                   statVars, concVars, dashVars>>

InitMU ==
    /\ pc = "marginal"
    /\ copy \in {1, 2}
    /\ \E inst \in MUInstances : muVec = inst.mu /\ covMat = inst.cov
    /\ wStar \in Baselines(Len(muVec))
    /\ universe = SubSeq(UNIVERSE, 1, Len(muVec))
    /\ heldIdx \in SUBSET (0..(Len(muVec) - 1))
    /\ metricsArr = <<>>
    /\ failure = ""
    /\ IdleStat
    /\ IdleConc
    /\ IdleDash
    /\ IdleOpt
    /\ IdleFeat
    /\ IdleReq

NextMU == MarginalUtilities

SpecMU == InitMU /\ [][NextMU]_vars

----------------------------------------------------------------------------
(* The feature assembler as a pure function: SpecFeat draws the candidate  *)
(* list, the marginal map, the fundamentals map and the target.            *)

MaxFeatTickers == 3

FeatTickers == Range(SubSeq(UNIVERSE, 1, MaxFeatTickers))

TickerNo(t) == CHOOSE i \in 1..Len(UNIVERSE) : UNIVERSE[i] = t

\* sequences of distinct tickers of S
DistinctSeqs(S) ==
    UNION {{q \in [1..n -> S] : \A i, j \in 1..n : i # j => q[i] # q[j]} :
              n \in 0..Cardinality(S)}

\* one entry per ticker, every field with a value of its own
MarginalOf(t) ==
    [f \in {"deltaSharpe", "deltaCvar"} |->
        Fin(100 * TickerNo(t) + (IF f = "deltaSharpe" THEN 1 ELSE 2))]

\* the second ticker has no usable beta or market capitalisation
FundamentalOf(t) ==
    [f \in {"momentum6m", "momentum12m", "beta", "divYield", "logCap"} |->
        CASE f = "momentum6m"  -> Fin(100 * TickerNo(t) + 3)
          [] f = "momentum12m" -> Fin(100 * TickerNo(t) + 4)
          [] f = "beta"        -> IF TickerNo(t) = 2 THEN NaN
                                  ELSE Fin(100 * TickerNo(t) + 5)
          [] f = "divYield"    -> Fin(100 * TickerNo(t) + 6)
          [] f = "logCap"      -> IF TickerNo(t) = 2 THEN NaN
                                  ELSE Fin(100 * TickerNo(t) + 7)]

BuildFeatures ==
    /\ pc = "features"
    /\ X' = buildFeatureMatrix(candidates, marginalMap, fundamentals,
                               targetReturn)
    /\ pc' = "features-done"
    /\ UNCHANGED <<copy, failure, muVec, covMat, targetReturn, wStar, muVars,
                   candidates, marginalMap, fundamentals, reqVars,
                   statVars, concVars, dashVars>>

InitFeat ==
    /\ pc = "features"
    /\ copy = 1
    /\ candidates \in DistinctSeqs(FeatTickers)
    /\ \E S \in SUBSET FeatTickers : marginalMap = [t \in S |-> MarginalOf(t)]
    /\ \E S \in SUBSET FeatTickers :
           fundamentals = [t \in S |-> FundamentalOf(t)]
    /\ targetReturn \in {Fin(60), Fin(90)}
    /\ X = <<>>
    /\ muVec = <<>> /\ covMat = <<>> /\ wStar = <<>>
    /\ failure = ""
    /\ IdleStat
    /\ IdleConc
    /\ IdleDash
    /\ IdleMU
    /\ IdleReq

NextFeat == BuildFeatures

SpecFeat == InitFeat /\ [][NextFeat]_vars

----------------------------------------------------------------------------
(* The recommend-trades route: one request through POST.  copy = 1 is the  *)
(* handler that validates its input, copy = 2 the other handler of the     *)
(* file.  Each action runs the handler from one await to the next.         *)

\* the body: a JSON object, whose absent keys read as undefined, or text
\* that is no JSON
EmptyObject == [holdings |-> Undef, targetReturn |-> Undef, budget |-> Undef]
Obj(o) == [k |-> "object", o |-> o]
Unparsable == [k |-> "unparsable", o |-> EmptyObject]

\* holdings: absent, or an array of objects whose ticker is a string in
\* any case and padding, empty, or missing
Holding(chars) == [ticker |-> Str(chars)]

HoldingsRaws ==
    { Undef,
      Arr(<<>>),
      Arr(<<Holding(AMZN)>>),
      Arr(<<Holding(<<" ", "g", "o", "o", "g", " ">>)>>),
      Arr(<<Holding(<<"T", "S", "L", "A">>)>>),
      Arr(<<Holding(<<>>)>>),
      Arr(<<[ticker |-> Undef]>>),
      Arr(<<Holding(<<"j", "p", "m">>), Holding(AMZN)>>),
      Arr(<<Holding(AMZN), Holding(GOOG), Holding(JPM)>>) }

TargetRaws ==
    { Undef, Null, Str(<<>>), Str(<<"a", "b", "c">>), Str(<<"9", "0">>),
      Fin(90), Fin(200), Arr(<<Fin(90)>>) }

\* the budget: absent, a number of cents, or a number beyond the range of
\* the doubles (1e999), which JSON.parse reads as Infinity
BudgetRaws == {Undef, Fin(0), Fin(-5000), Fin(30000), Fin(100000), PosInf}

Bodies ==
    {Unparsable} \cup
    {Obj([holdings |-> h, targetReturn |-> t, budget |-> b]) :
        h \in HoldingsRaws, t \in TargetRaws, b \in BudgetRaws}

\* what computeStats can hand back: the instruments it kept with their
\* moments and last closes (in cents), or an exception
computeStatsResults ==
    { [threw |-> TRUE, universe |-> <<>>, muVec |-> <<>>, covMat |-> <<>>,
       latestPrices |-> <<>>],
      [threw |-> FALSE, universe |-> <<AMZN>>, muVec |-> <<80>>,
       covMat |-> <<(<<400>>)>>,
       latestPrices |-> [t \in {AMZN} |-> 20000]],
      [threw |-> FALSE, universe |-> <<AMZN, GOOG>>, muVec |-> <<50, 100>>,
       covMat |-> <<(<<400, 100>>), (<<100, 900>>)>>,
       latestPrices |-> [t \in {AMZN, GOOG} |->
                            IF t = AMZN THEN 20000 ELSE 15000]],
      [threw |-> FALSE, universe |-> <<AMZN, GOOG, JPM>>,
       muVec |-> <<50, 100, 150>>, covMat |-> Diag3(600, 1000, 1500),
       latestPrices |-> [t \in {AMZN, GOOG, JPM} |->
                            IF t = AMZN THEN 20000
                            ELSE IF t = GOOG THEN 15000 ELSE 25000]] }

\* the provider's OVERVIEW object of a ticker: complete, a rate-limit note
\* with no field of the overview, or with the text None in its fields
OverviewComplete == [Beta |-> Fin(1200), MarketCapitalization |-> Fin(1500000)]
OverviewNote == [Note |-> Str(<<"l", "i", "m", "i", "t">>)]
OverviewNone == [Beta |-> Str(<<"N", "o", "n", "e">>),
                 MarketCapitalization |-> Str(<<"N", "o", "n", "e">>)]

\* what the provider (or the cache) holds for the tickers
Overviews ==
    { [t \in Range(UNIVERSE) |-> OverviewComplete],
      [t \in Range(UNIVERSE) |-> OverviewNote],
      [t \in Range(UNIVERSE) |-> IF t = GOOG THEN OverviewNote
                                 ELSE OverviewComplete],
      [t \in Range(UNIVERSE) |-> IF t = AMZN THEN OverviewNone
                                 ELSE OverviewComplete] }

\* the cached weekly series of a ticker
WeeklySeries(t) ==
    CASE t = AMZN ->
           [i \in 1..60 |-> [close |-> Fin(14000 + 100 * i),
                             dividend |-> Fin(0)]]
      [] t = GOOG ->
           [i \in 1..40 |-> [close |-> Fin(19000 - 100 * i),
                             dividend |-> IF i % 13 = 0 THEN Fin(20)
                                          ELSE Fin(0)]]
      [] OTHER ->
           [i \in 1..53 |-> [close |-> Fin(19700 + 100 * i),
                             dividend |-> IF i % 13 = 0 THEN Fin(100)
                                          ELSE Undef]]

\* the two files the route reads: the model, and the column names
Names7 == SubSeq(FEATURE_ORDER, 1, 7)

FileStates ==
    { [model |-> FALSE, cols |-> [k |-> "json", v |-> FEATURE_ORDER]] } \cup
    { [model |-> TRUE, cols |-> c] :
        c \in { [k |-> "missing", v |-> <<>>],
                [k |-> "garbled", v |-> <<>>],
                [k |-> "json", v |-> FEATURE_ORDER],
                [k |-> "json", v |-> Names7] } }

ScoreValues == {1, 2}

\* session.run: it rejects, or gives one score per row
ScorerOutcomes(n) ==
    { [threw |-> TRUE, scores |-> <<>>] } \cup
    { [threw |-> FALSE, scores |-> sc] : sc \in [1..n -> ScoreValues] }

errJson(message, status) ==
    [status |-> status, error |-> message, recommendations |-> <<>>,
     featureOrder |-> <<>>]

okJson(recommendations, order) ==
    [status |-> 200, error |-> "", recommendations |-> recommendations,
     featureOrder |-> order]

\* the held tickers as written, neither trimmed nor upper-cased
HeldTickersOfRaw(rows) ==
    {OrElse(Get(rows[i], "ticker"), Str(<<>>)).s :
        i \in 1..Len(rows)} \ {<<>>}

\* holdings.map(h => String(h?.ticker || "").trim().toUpperCase())
\*         .filter(Boolean), as a set; a ticker is a string or is missing
HeldTickersOf(rows) ==
    {toUpperCase(trim(OrElse(Get(rows[i], "ticker"), Str(<<>>)).s)) :
        i \in 1..Len(rows)} \ {<<>>}

\* the narrowing loop: Number(r.momentum6m ?? r.mom6 ?? 0), ...
Narrow(raw, tickers) ==
    [t \in {u \in Range(tickers) : u \in DOMAIN raw} |->
        LET r == raw[t]
        IN  [momentum6m  |-> Number(Coalesce(Get(r, "momentum6m"),
                                 Coalesce(Get(r, "mom6"), Fin(0)))),
             momentum12m |-> Number(Coalesce(Get(r, "momentum12m"),
                                 Coalesce(Get(r, "mom12"), Fin(0)))),
             beta        |-> Number(Coalesce(Get(r, "beta"), Fin(0))),
             divYield    |-> Number(Coalesce(Get(r, "divYield"), Fin(0))),
             logCap      |-> Number(Coalesce(Get(r, "logCap"), Fin(0)))]]

DimensionMismatchNever(order, rows) == FALSE

\* featureOrder.length !== X[0].length
DimensionMismatch(order, rows) == Len(order) # Len(rows[1])

\* a sort that puts an element before its equals
RECURSIVE SortByScoreUnstable(_)
SortByScoreUnstable(list) ==
    IF list = <<>> THEN <<>>
    ELSE LET r    == list[Len(list)]
             done == SortByScoreUnstable(SubSeq(list, 1, Len(list) - 1))
             p    == Cardinality({i \in 1..Len(done) : done[i].score > r.score})
         IN  SubSeq(done, 1, p) \o <<r>> \o SubSeq(done, p + 1, Len(done))

\* Array.prototype.sort((a, b) => b.score - a.score): stable, descending
RECURSIVE SortByScore(_)
SortByScore(list) ==
    IF list = <<>> THEN <<>>
    ELSE LET r    == list[Len(list)]
             done == SortByScore(SubSeq(list, 1, Len(list) - 1))
             p    == Cardinality({i \in 1..Len(done) : done[i].score >= r.score})
         IN  SubSeq(done, 1, p) \o <<r>> \o SubSeq(done, p + 1, Len(done))

Ranked(cands, sc) ==
    SortByScore([i \in 1..Len(cands) |-> [ticker |-> cands[i],
                                          score |-> sc[i]]])

\* the sizing without the test of the budget
SharesAnyBudget(bud, k, px) ==
    IF bud.k \in {"Infinity", "-Infinity"} /\ px > 0 THEN PosInf
    ELSE IF IsFinite(bud) /\ px > 0
    THEN LET fl == bud.v \div (k * px) IN Fin(IF fl > 1 THEN fl ELSE 1)
    ELSE Fin(0)

\* Math.max(1, Math.floor(perBucket / px)) when perBucket > 0 and px > 0,
\* with perBucket = budget / k when budget > 0; an infinite budget gives an
\* infinite bucket and an infinite number of shares, and NaN > 0 is false
Shares(bud, k, px) ==
    IF bud.k = "Infinity" /\ px > 0 THEN PosInf
    ELSE IF IsFinite(bud) /\ bud.v > 0 /\ px > 0
    THEN LET fl == bud.v \div (k * px) IN Fin(IF fl > 1 THEN fl ELSE 1)
    ELSE Fin(0)

\* the sizing of every ranked candidate, none cut
RecommendationsAll(ranked, bud, prices) ==
    LET k == Len(ranked)
    IN  [i \in 1..k |->
            LET px == IF ranked[i].ticker \in DOMAIN prices
                      THEN prices[ranked[i].ticker] ELSE 0
            IN  [ticker |-> ranked[i].ticker, score |-> ranked[i].score,
                 price |-> px, shares |-> Shares(bud, k, px)]]

Recommendations(ranked, bud, prices) ==
    LET k   == IF Len(ranked) < 5 THEN Len(ranked) ELSE 5
        top == SubSeq(ranked, 1, k)
    IN  [i \in 1..k |->
            LET px == IF top[i].ticker \in DOMAIN prices
                      THEN prices[top[i].ticker] ELSE 0
            IN  [ticker |-> top[i].ticker, score |-> top[i].score,
                 price |-> px, shares |-> Shares(bud, k, px)]]

\* req.json().catch(() => ({}))
BodyObject == IF body.k = "object" THEN body.o ELSE EmptyObject

\* lines 25-34: parse, validate the target, ask for the statistics
POST_Request ==
    /\ pc = "request" /\ copy = 1
    /\ LET t == Number(Get(BodyObject, "targetReturn"))
           b == Number(Coalesce(Get(BodyObject, "budget"), Fin(0)))
       IN  /\ targetReturn' = t
           /\ budget' = b
           /\ IF ~IsFinite(t)
              THEN /\ response' = errJson("targetReturn must be a number", 400)
                   /\ pc' = "done"
                   /\ calls' = calls
              ELSE /\ response' = response
                   /\ pc' = "await-stats"
                   /\ calls' = Append(calls, "computeStats")
    /\ UNCHANGED <<copy, failure, muVec, covMat, wStar, muVars, featVars,
                   body, heldTickers, latestPrices, featureOrder, scores,
                   statVars, concVars, dashVars>>

\* Array.isArray(body?.holdings) ? body.holdings : []
Holdings ==
    LET h == Get(BodyObject, "holdings")
    IN  IF h.k = "array" THEN h.a ELSE <<>>

Failed == errJson("Failed to compute recommendations", 500)

\* lines 34-68: the statistics arrive (or computeStats throws); optimize,
\* find what is held, compute the marginal utilities, pick the candidates.
\* fe is the copy of featureEngineering the import resolves to.  When
\* computeMarginalUtilities throws, the catch of line 142 answers 500.
AfterStats(fe) ==
    /\ pc = "await-stats" /\ copy = 1
    /\ \E st \in computeStatsResults :
        IF st.threw
        THEN /\ response' = Failed
             /\ pc' = "done"
             /\ UNCHANGED <<muVec, covMat, wStar, muVars, candidates,
                            marginalMap, heldTickers, latestPrices, calls>>
        ELSE \E w \in meanVarianceOptimization(st.muVec, st.covMat,
                                               targetReturn.v) :
            LET held    == HeldTickersOf(Holdings)
                hIdx    == {i - 1 : i \in {j \in 1..Len(st.universe) :
                                              st.universe[j] \in held}}
                res     == computeMarginalUtilities(w, st.muVec, st.covMat,
                                                    st.universe, hIdx, fe)
                mm      == toMarginalMap(res.metrics)
                IsCandidate(t) == t \notin held /\ t \in DOMAIN mm
                cands   == SelectSeq(st.universe, IsCandidate)
            IN  /\ universe' = st.universe
                /\ muVec' = st.muVec
                /\ covMat' = st.covMat
                /\ latestPrices' = st.latestPrices
                /\ wStar' = w
                /\ heldTickers' = held
                /\ heldIdx' = hIdx
                /\ metricsArr' = res.metrics
                /\ IF res.threw
                   THEN /\ response' = Failed
                        /\ pc' = "done"
                        /\ calls' = calls \o <<"meanVarianceOptimization",
                                               "computeMarginalUtilities">>
                        /\ UNCHANGED <<marginalMap, candidates>>
                   ELSE IF cands = <<>>
                   THEN /\ response' = okJson(<<>>, <<>>)
                        /\ pc' = "done"
                        /\ calls' = calls \o <<"meanVarianceOptimization",
                                               "computeMarginalUtilities">>
                        /\ marginalMap' = mm
                        /\ candidates' = cands
                   ELSE /\ response' = response
                        /\ pc' = "await-fundamentals"
                        /\ calls' = calls \o <<"meanVarianceOptimization",
                                               "computeMarginalUtilities",
                                               "getFundamentalMap">>
                        /\ marginalMap' = mm
                        /\ candidates' = cands
    /\ UNCHANGED <<copy, failure, targetReturn, fundamentals, X, body, budget,
                   featureOrder, scores,
                   statVars, concVars, dashVars>>

\* the route as the repository has it: the import of
\* "@/lib/featureEngineering" is src/lib/featureEngineering.ts, whose
\* cvarNorm throws
POST_AfterStats == AfterStats(1)

\* the route linked with the copy of featureEngineering that has normInv
POST_AfterStatsNormInv == AfterStats(2)

\* lines 68-112: the fundamentals arrive (or a fetch throws); narrow them,
\* build the feature matrix, read the two files, check the dimension, and
\* hand the matrix to the scorer
POST_AfterFundamentals ==
    /\ pc = "await-fundamentals" /\ copy = 1
    /\ \E threw \in BOOLEAN :
        IF threw
        THEN /\ response' = Failed
             /\ pc' = "done"
             /\ UNCHANGED <<fundamentals, X, featureOrder, calls>>
        ELSE \E ov \in Overviews :
             LET raw   == getFundamentalMap(universe, ov,
                              [t \in Range(universe) |-> WeeklySeries(t)])
                 funds == Narrow(raw, universe)
                 rows  == buildFeatureMatrix(candidates, marginalMap, funds,
                                             targetReturn)
             IN  \E files \in FileStates :
                 LET order == files.cols.v IN
                 /\ fundamentals' = funds
                 /\ X' = rows
                 /\ IF Len(rows) = 0
                    THEN /\ response' =
                              errJson("Feature matrix is empty or malformed",
                                      500)
                         /\ pc' = "done"
                         /\ featureOrder' = featureOrder
                         /\ calls' = Append(calls, "buildFeatureMatrix")
                    ELSE IF ~files.model
                    THEN /\ response' = errJson("ONNX model not found", 500)
                         /\ pc' = "done"
                         /\ featureOrder' = featureOrder
                         /\ calls' = Append(calls, "buildFeatureMatrix")
                    ELSE IF files.cols.k = "missing"
                    THEN /\ response' = errJson("Columns JSON not found", 500)
                         /\ pc' = "done"
                         /\ featureOrder' = featureOrder
                         /\ calls' = Append(calls, "buildFeatureMatrix")
                    ELSE IF files.cols.k = "garbled"
                    THEN /\ response' = Failed
                         /\ pc' = "done"
                         /\ featureOrder' = featureOrder
                         /\ calls' = Append(calls, "buildFeatureMatrix")
                    ELSE IF DimensionMismatch(order, rows)
                    THEN /\ response' =
                              errJson("Feature dimension mismatch", 500)
                         /\ pc' = "done"
                         /\ featureOrder' = order
                         /\ calls' = Append(calls, "buildFeatureMatrix")
                    ELSE /\ response' = response
                         /\ pc' = "await-session"
                         /\ featureOrder' = order
                         /\ calls' = calls \o <<"buildFeatureMatrix",
                                                "InferenceSession.create">>
    /\ UNCHANGED <<copy, failure, optVars, muVars, candidates, marginalMap,
                   body, budget, heldTickers, latestPrices, scores,
                   statVars, concVars, dashVars>>

\* lines 112-115: InferenceSession.create resolves (or rejects); build the
\* tensor from X and call session.run
POST_SessionCreated ==
    /\ pc = "await-session" /\ copy = 1
    /\ \E created \in BOOLEAN :
        IF created
        THEN /\ response' = response
             /\ pc' = "await-scorer"
             /\ calls' = Append(calls, "session.run")
        ELSE /\ response' = Failed
             /\ pc' = "done"
             /\ calls' = calls
    /\ UNCHANGED <<copy, failure, optVars, muVars, featVars, body, budget,
                   heldTickers, latestPrices, featureOrder, scores,
                   statVars, concVars, dashVars>>

\* lines 115-141: session.run resolves (or rejects); rank, take the top 5,
\* size the trades, respond
POST_AfterScoring ==
    /\ pc = "await-scorer" /\ copy = 1
    /\ \E out \in ScorerOutcomes(Len(X)) :
        IF out.threw
        THEN /\ response' = Failed
             /\ scores' = scores
        ELSE /\ scores' = out.scores
             /\ response' = okJson(Recommendations(
                                       Ranked(candidates, out.scores),
                                       budget, latestPrices),
                                   featureOrder)
    /\ pc' = "done"
    /\ UNCHANGED <<copy, failure, optVars, muVars, featVars, body, budget,
                   heldTickers, latestPrices, featureOrder, calls,
                   statVars, concVars, dashVars>>

\* the other handler, lines 164-167: no validation; a body that does not
\* parse rejects req.json(); budget defaults to 0 only when it is absent
POST2_Request ==
    /\ pc = "request" /\ copy = 2
    /\ IF body.k # "object"
       THEN /\ response' = Failed
            /\ pc' = "done"
            /\ UNCHANGED <<targetReturn, budget, calls>>
       ELSE /\ targetReturn' = Get(body.o, "targetReturn")
            /\ budget' = IF Get(body.o, "budget").k = "undefined" THEN Fin(0)
                         ELSE Get(body.o, "budget")
            /\ response' = response
            /\ pc' = "await-stats"
            /\ calls' = Append(calls, "computeStats")
    /\ UNCHANGED <<copy, failure, muVec, covMat, wStar, muVars, featVars,
                   body, heldTickers, latestPrices, featureOrder, scores,
                   statVars, concVars, dashVars>>

\* the other handler, lines 167-180: the optimizer runs on the target as
\* sent; holdings.map throws when holdings is no array; the call of
\* computeMarginalUtilities hands one object to a function of five
\* parameters, whose `tickers` is then undefined, and throws.  Every path
\* ends in the catch, and the locals are lost with it.
POST2_AfterStats ==
    /\ pc = "await-stats" /\ copy = 2
    /\ \E st \in computeStatsResults :
        calls' = IF st.threw THEN calls
                 ELSE IF Get(body.o, "holdings").k # "array"
                 THEN Append(calls, "meanVarianceOptimization")
                 ELSE calls \o <<"meanVarianceOptimization",
                                 "computeMarginalUtilities">>
    /\ response' = Failed
    /\ pc' = "done"
    /\ UNCHANGED <<copy, failure, optVars, muVars, featVars, body, budget,
                   heldTickers, latestPrices, featureOrder, scores,
                   statVars, concVars, dashVars>>

InitPost ==
    /\ pc = "request"
    /\ copy \in {1, 2}
    /\ body \in Bodies
    /\ budget = Fin(0)
    /\ heldTickers = {}
    /\ latestPrices = <<>>
    /\ featureOrder = <<>>
    /\ scores = <<>>
    /\ response = NoResponse
    /\ calls = <<>>
    /\ muVec = <<>> /\ covMat = <<>> /\ wStar = <<>>
    /\ failure = ""
    /\ IdleStat
    /\ IdleConc
    /\ IdleDash
    /\ IdleOpt
    /\ IdleMU
    /\ IdleFeat

NextPost ==
    \/ POST_Request
    \/ POST_AfterStats
    \/ POST2_Request
    \/ POST2_AfterStats

SpecPost == InitPost /\ [][NextPost]_vars

\* the validating handler with the copy of featureEngineering whose cvarNorm
\* returns: the request goes on to the fundamentals, the features, the
\* scorer and the ranking
InitPostNormInv == InitPost /\ copy = 1

NextPostNormInv ==
    \/ POST_Request
    \/ POST_AfterStatsNormInv
    \/ POST_AfterFundamentals
    \/ POST_SessionCreated
    \/ POST_AfterScoring

SpecPostNormInv == InitPostNormInv /\ [][NextPostNormInv]_vars

----------------------------------------------------------------------------
(* DataHelper.ts: computeStats.  A series is a function from its dates     *)
(* (week numbers, which sort as the date strings do) to its bars.  Weekly  *)
(* returns and their means are in 1e-4.                                    *)

DigitChars == Range(Digits)

\* the text without its leading whitespace
SkipWhitespace(s) ==
    IF s # <<>> /\ s[1] \notin Whitespace THEN s
    ELSE IF \A i \in 1..Len(s) : s[i] \in Whitespace THEN <<>>
    ELSE SubSeq(s, MinOf({i \in 1..Len(s) : s[i] \notin Whitespace}), Len(s))

\* how many digits the text starts with
DigitPrefix(t) ==
    IF \A i \in 1..Len(t) : t[i] \in DigitChars THEN Len(t)
    ELSE MinOf({i \in 1..Len(t) : t[i] \notin DigitChars}) - 1

ParsePrefix(t, n) ==
    IF n > 0 THEN Fin(DecimalValue(SubSeq(t, 1, n)))
    ELSE IF Len(t) >= 8 /\ SubSeq(t, 1, 8)
                 = <<"I", "n", "f", "i", "n", "i", "t", "y">>
         THEN PosInf
    ELSE NaN

ParseLeading(t) == ParsePrefix(t, DigitPrefix(t))

\* parseFloat: the number a text starts with, NaN when it starts with none
parseFloat(x) ==
    IF x.k = "num" THEN x
    ELSE IF x.k # "str" THEN NaN
    ELSE ParseLeading(SkipWhitespace(x.s))

\* what fetchWeeklySeries gave for a ticker: a series, or nothing (the
\* fetch threw, or the reply had no series)
NoSeries == [ok |-> FALSE, ts |-> <<>>]
Series(ts) == [ok |-> TRUE, ts |-> ts]

\* Object.keys(seriesMap): the tickers with data, in the order of UNIVERSE
TickersWithData(w) ==
    LET HasData(t) == w[t].ok /\ DOMAIN w[t].ts # {}
    IN  SelectSeq(UNIVERSE, HasData)

\* if (s && Object.keys(s).length > 0) seriesMap[ticker] = s
Assigned(sm, t, s) ==
    IF s.ok /\ DOMAIN s.ts # {} THEN [sm EXCEPT ![t] = s] ELSE sm

\* dateSets.reduce(...): the running intersection, which starts over from
\* the next set whenever it is empty
RECURSIVE ReduceDates(_, _, _, _)
ReduceDates(acc, tickers, w, i) ==
    IF i > Len(tickers) THEN acc
    ELSE ReduceDates(IF acc = {} THEN DOMAIN w[tickers[i]].ts
                     ELSE acc \cap DOMAIN w[tickers[i]].ts,
                     tickers, w, i + 1)

\* Array.from(set).sort(), ascending; the dates are week numbers from 1
SortAsc(S) ==
    IF S = {} THEN <<>>
    ELSE LET In(d) == d \in S
         IN  SelectSeq([d \in 1..MaxOf(S) |-> d], In)

AlignedDates(tickers, w) == SortAsc(ReduceDates({}, tickers, w, 1))

\* parseFloat(sr[d]?.["4. close"] ?? "NaN")
CloseAt(sr, d) ==
    IF d \in DOMAIN sr
    THEN parseFloat(Coalesce(sr[d].close, Str(<<"N", "a", "N">>)))
    ELSE NaN

\* one weekly return, in 1e-4: NaN when a price is missing or the earlier
\* price is not positive
PctReturn(p0, p1) ==
    IF ~IsFinite(p0) \/ ~IsFinite(p1) \/ p0.v <= 0 THEN NaN
    ELSE Fin(((p1.v - p0.v) * 10000) \div p0.v)

\* the array with the elements of f
ArrayFrom(f) == f \o <<>>

\* r: the weekly returns of a series on the calendar
WeeklyReturns(sr, dates) ==
    ArrayFrom([i \in 1..(Len(dates) - 1) |->
                  PctReturn(CloseAt(sr, dates[i]), CloseAt(sr, dates[i + 1]))])

minObs == 30

SufficientCountingAll(r) == Len(r) >= minObs

SufficientHalf(r) == Len(SelectSeq(r, IsFinite)) * 2 >= minObs

\* r.filter(Number.isFinite).length >= minObs
Sufficient(r) == Len(SelectSeq(r, IsFinite)) >= minObs

\* r.map(x => (Number.isFinite(x) ? x : 0))
ZeroFilled(r) ==
    ArrayFrom([i \in 1..Len(r) |-> IF IsFinite(r[i]) THEN r[i].v ELSE 0])

\* the round that puts a kept instrument first in kept
FilterStepKeptFirst(acc, t, lastClose, r) ==
    IF ~IsFinite(lastClose) THEN acc
    ELSE IF Sufficient(r)
    THEN [returns      |-> Append(acc.returns, ZeroFilled(r)),
          kept         |-> <<t>> \o acc.kept,
          latestPrices |-> (t :> lastClose.v) @@ acc.latestPrices]
    ELSE [acc EXCEPT !.latestPrices = (t :> lastClose.v) @@ @]

\* one round of the loop over the tickers: an instrument without a finite
\* last close is passed over; one with a last close gets its latestPrices
\* entry, and is kept with its returns when enough of them are valid
FilterStep(acc, t, lastClose, r) ==
    IF ~IsFinite(lastClose) THEN acc
    ELSE IF Sufficient(r)
    THEN [returns      |-> Append(acc.returns, ZeroFilled(r)),
          kept         |-> Append(acc.kept, t),
          latestPrices |-> (t :> lastClose.v) @@ acc.latestPrices]
    ELSE [acc EXCEPT !.latestPrices = (t :> lastClose.v) @@ @]

RECURSIVE FilterLoop(_, _, _, _, _)
FilterLoop(tickers, w, dates, i, acc) ==
    IF i > Len(tickers) THEN acc
    ELSE FilterLoop(tickers, w, dates, i + 1,
             FilterStep(acc, tickers[i],
                        CloseAt(w[tickers[i]].ts, dates[Len(dates)]),
                        WeeklyReturns(w[tickers[i]].ts, dates)))

\* Object.keys(latestPrices).forEach(t => { if (!kept.includes(t)) delete })
PruneLatestPrices(prices, kept) ==
    [t \in DOMAIN prices \cap Range(kept) |-> prices[t]]

\* Math.pow(1 + m, 52) - 1 for a weekly mean m in 1e-4, in 1e-3; the power
\* is taken by squaring, in 1e-4
TimesScaled(x, y) == (x * y) \div 10000

RECURSIVE PowScaled(_, _)
PowScaled(x, k) ==
    IF k = 0 THEN 10000
    ELSE IF k % 2 = 0
    THEN TimesScaled(PowScaled(x, k \div 2), PowScaled(x, k \div 2))
    ELSE TimesScaled(PowScaled(x, k - 1), x)

Annualised(m) == (PowScaled(10000 + m, 52) - 10000) \div 10

\* the sum of covPair, given the two means
CoMoment(a, b, n, meanA, meanB) ==
    SumSeq(ArrayFrom([i \in 1..n |-> (a[i] - meanA) * (b[i] - meanB)]))

\* covPair, in 1e-8
covPair(a, b) ==
    LET n == IF Len(a) < Len(b) THEN Len(a) ELSE Len(b)
    IN  IF n <= 1 THEN 0
        ELSE CoMoment(a, b, n, SumSeq(a) \div n, SumSeq(b) \div n)
                 \div (n - 1)

Thrown(message, dates) ==
    [error |-> message, alignedDates |-> dates, returns |-> <<>>,
     universe |-> <<>>, muVec |-> <<>>, covMat |-> <<>>,
     latestPrices |-> <<>>]

MomentsOfNone(dates, kept, rets, prices) ==
    [error |-> "", alignedDates |-> dates, returns |-> rets,
     universe |-> kept, muVec |-> <<>>, covMat |-> <<>>,
     latestPrices |-> prices]

\* steps 4 to 7: the moments of the kept instruments and what is returned
Moments(dates, kept, rets, prices) ==
    IF Len(kept) = 0
    THEN Thrown("No tickers with sufficient overlapping history.", dates)
    ELSE [error        |-> "",
          alignedDates |-> dates,
          returns      |-> rets,
          universe     |-> kept,
          muVec        |-> [i \in 1..Len(kept) |->
                               Annualised(SumSeq(rets[i]) \div Len(rets[i]))],
          covMat       |-> [i \in 1..Len(kept) |->
                               [j \in 1..Len(kept) |->
                                   (covPair(rets[i], rets[j]) * 52)
                                       \div 10000]],
          latestPrices |-> prices]

Filtered(dates, loop) ==
    Moments(dates, loop.kept, loop.returns,
            PruneLatestPrices(loop.latestPrices, loop.kept))

\* steps 2 and 3: the calendar, then the loop over the tickers
Aligned(w, tickers, dates) ==
    IF Len(dates) < 3
    THEN Thrown("Not enough overlapping history to compute returns.", dates)
    ELSE Filtered(dates,
             FilterLoop(tickers, w, dates, 1,
                 [returns |-> <<>>, kept |-> <<>>, latestPrices |-> <<>>]))

Downloaded(w, tickers) ==
    IF Len(tickers) = 0
    THEN Thrown("No time series available to compute stats.", <<>>)
    ELSE Aligned(w, tickers, AlignedDates(tickers, w))

\* what computeStats returns, or the message of what it throws
computeStats(w) == Downloaded(w, TickersWithData(w))

\* the text of a price, as the provider writes it
RECURSIVE DecimalString(_)
DecimalString(n) ==
    IF n < 10 THEN <<Digits[n + 1]>>
    ELSE DecimalString(n \div 10) \o <<Digits[(n % 10) + 1]>>

\* a weekly series on the dates from..to whose closes start at base and
\* follow the pattern; the bars of the dates in bad carry no usable close
Bars(from, to, base, swing, bad) ==
    [d \in from..to |->
        [close    |-> IF d \in bad
                      THEN (IF d % 2 = 0 THEN Undef
                            ELSE Str(<<"N", "o", "n", "e">>))
                      ELSE Str(DecimalString(base + 100 * d
                                                  + swing * (d % 2))),
         dividend |-> Str(<<"0">>)]]

\* the same with the swing on every period-th date
BarsEvery(from, to, base, swing, period) ==
    [d \in from..to |->
        [close    |-> Str(DecimalString(base + 100 * d
                              + (IF d % period = 0 THEN swing ELSE 0))),
         dividend |-> Str(<<"0">>)]]

\* the series ts with the close of date d replaced by the text
WithClose(ts, d, text) == [ts EXCEPT ![d].close = Str(text)]

\* the series the provider may hold for an instrument
SeriesLibrary ==
    { NoSeries,
      Series(<<>>),
      Series(Bars(1, 40, 10000, 0, {})),
      Series(Bars(1, 40, 20000, 1000, {})),
      Series(Bars(41, 80, 10000, 0, {})),
      Series(Bars(1, 31, 15000, 0, {})),
      Series(Bars(1, 30, 15000, 0, {})),
      Series(Bars(1, 40, 10000, 0, {1, 3, 6, 9, 12})),
      Series(Bars(1, 40, 10000, 0, {1, 3, 6, 9, 12, 15})),
      Series(Bars(1, 40, 10000, 0, {40})),
      Series(Bars(39, 40, 10000, 0, {})),
      Series(WithClose(Bars(1, 32, 15000, 0, {}), 15, <<"0">>)) }

MaxStatTickers == 3

\* The cache directory: a file per key, absent or with its content.
Absent == [ok |-> FALSE, data |-> <<>>]
File(data) == [ok |-> TRUE, data |-> data]

\* cachePath(`weekly_${ticker}`) and the like
weeklyKeyShared(t) == <<"weekly", UNIVERSE[1]>>

weeklyKey(t) == <<"weekly", t>>
overviewKey(t) == <<"overview", t>>
StatsKeys == {<<k, <<>> >> : k \in {"stats_universe", "stats_returns",
                                     "stats_cov", "stats_prices"}}

CacheKeys ==
    {<<p, t>> : p \in {"weekly", "overview"}, t \in Range(UNIVERSE)}
        \cup StatsKeys

\* writeCache(key, data)
writeCache(c, key, data) == [c EXCEPT ![key] = File(data)]

\* the four writes at the end of computeStats
WriteStats(c, st) ==
    [key \in CacheKeys |->
        CASE key[1] = "stats_universe" -> File(st.universe)
          [] key[1] = "stats_returns"  -> File(st.muVec)
          [] key[1] = "stats_cov"      -> File(st.covMat)
          [] key[1] = "stats_prices"   -> File(st.latestPrices)
          [] OTHER -> c[key]]

\* what the call leaves: the thrown message, or the returned values and
\* the four stats files
StatsOutcome(res) ==
    /\ failure' = res.error
    /\ alignedDates' = res.alignedDates
    /\ returns' = res.returns
    /\ universe' = res.universe
    /\ muVec' = res.muVec
    /\ covMat' = res.covMat
    /\ latestPrices' = res.latestPrices
    /\ cache' = IF res.error = "" THEN WriteStats(cache, res) ELSE cache

\* computeStats calls fetchWeeklySeries for the next ticker of UNIVERSE
\* (lines 88-90, 41-48), which runs up to its first await: a cached series
\* is returned, and otherwise the request is sent
CallsNext ==
    /\ calls' = Append(calls, "fetchWeeklySeries")
    /\ IF cache[weeklyKey(UNIVERSE[Len(calls) + 1])].ok
       THEN /\ weekly' = [weekly EXCEPT ![UNIVERSE[Len(calls) + 1]] =
                   Series(cache[weeklyKey(UNIVERSE[Len(calls) + 1])].data)]
            /\ pc' = "weekly-settled"
       ELSE /\ weekly' = weekly
            /\ pc' = "weekly-fetch"

\* computeStats is entered (lines 85-90) and calls fetchWeeklySeries for
\* the first ticker
StatsCalled ==
    /\ pc = "download"
    /\ CallsNext
    /\ UNCHANGED <<copy, seriesMap, alignedDates, returns, universe, muVec,
                   covMat, latestPrices, failure, targetReturn, wStar,
                   heldIdx, metricsArr, candidates, marginalMap, fundamentals,
                   X, body, budget, heldTickers, featureOrder, scores,
                   response, provider, cache0, cache, reqs, dashVars>>

\* the fetch of line 48 settles: the reply arrives and fetchWeeklySeries
\* awaits its body (line 49), or the fetch fails and fetchWeeklySeries
\* throws
DownloadReplied ==
    /\ pc = "weekly-fetch"
    /\ \/ Len(calls) <= MaxStatTickers /\ pc' = "weekly-json"
       \/ pc' = "weekly-settled"
    /\ UNCHANGED <<copy, weekly, seriesMap, alignedDates, returns, universe,
                   muVec, covMat, latestPrices, failure, targetReturn, wStar,
                   heldIdx, metricsArr, candidates, marginalMap, fundamentals,
                   X, body, budget, heldTickers, featureOrder, scores,
                   response, calls, provider, cache0, cache, reqs, dashVars>>

\* the body of the reply arrives (lines 49-57): a reply with a series is
\* written to the cache and returned; for a reply without one writeCache
\* throws and nothing is written
DownloadParsed ==
    /\ pc = "weekly-json"
    /\ \E reply \in SeriesLibrary :
          /\ weekly' = [weekly EXCEPT ![UNIVERSE[Len(calls)]] = reply]
          /\ cache' = IF reply.ok
                      THEN writeCache(cache, weeklyKey(UNIVERSE[Len(calls)]),
                                      reply.ts)
                      ELSE cache
    /\ pc' = "weekly-settled"
    /\ UNCHANGED <<copy, seriesMap, alignedDates, returns, universe, muVec,
                   covMat, latestPrices, failure, targetReturn, wStar,
                   heldIdx, metricsArr, candidates, marginalMap, fundamentals,
                   X, body, budget, heldTickers, featureOrder, scores,
                   response, calls, provider, cache0, reqs, dashVars>>

\* the await of line 90 resumes: a series that is not empty goes into
\* seriesMap (a throw is passed over, lines 94-96), and the loop calls
\* fetchWeeklySeries for the next ticker
DownloadReturned ==
    /\ pc = "weekly-settled"
    /\ Len(calls) < Len(UNIVERSE)
    /\ seriesMap' = Assigned(seriesMap, UNIVERSE[Len(calls)],
                             weekly[UNIVERSE[Len(calls)]])
    /\ CallsNext
    /\ UNCHANGED <<copy, alignedDates, returns, universe, muVec, covMat,
                   latestPrices, failure, targetReturn, wStar, heldIdx,
                   metricsArr, candidates, marginalMap, fundamentals, X, body,
                   budget, heldTickers, featureOrder, scores, response,
                   provider, cache0, cache, reqs, dashVars>>

\* the await of line 90 resumes for the last ticker: its series goes into
\* seriesMap and computeStats runs to its end (lines 91-207), which has no
\* await: the calendar, the filter, the moments, and on success the four
\* stats files
ComputeStats ==
    /\ pc = "weekly-settled"
    /\ Len(calls) = Len(UNIVERSE)
    /\ seriesMap' = Assigned(seriesMap, UNIVERSE[Len(calls)],
                             weekly[UNIVERSE[Len(calls)]])
    /\ StatsOutcome(computeStats(Assigned(seriesMap, UNIVERSE[Len(calls)],
                                          weekly[UNIVERSE[Len(calls)]])))
    /\ pc' = "stats-done"
    /\ UNCHANGED <<copy, weekly, targetReturn, wStar, heldIdx, metricsArr,
                   candidates, marginalMap, fundamentals, X, body, budget,
                   heldTickers, featureOrder, scores, response, calls,
                   provider, cache0, reqs, dashVars>>

\* computeStats is called with nothing downloaded and an empty cache
InitStats ==
    /\ pc = "download"
    /\ copy = 1
    /\ weekly = [t \in Range(UNIVERSE) |-> NoSeries]
    /\ seriesMap = [t \in Range(UNIVERSE) |-> NoSeries]
    /\ alignedDates = <<>>
    /\ returns = <<>>
    /\ universe = <<>>
    /\ muVec = <<>> /\ covMat = <<>> /\ wStar = <<>>
    /\ latestPrices = <<>>
    /\ failure = ""
    /\ targetReturn = Fin(0)
    /\ heldIdx = {}
    /\ metricsArr = <<>>
    /\ candidates = <<>>
    /\ scores = <<>>
    /\ marginalMap = <<>> /\ fundamentals = <<>> /\ X = <<>>
    /\ body = <<>>
    /\ budget = Fin(0)
    /\ heldTickers = {}
    /\ featureOrder = <<>>
    /\ response = NoResponse
    /\ calls = <<>>
    /\ provider = <<>> /\ cache0 = <<>> /\ reqs = <<>>
    /\ cache = [key \in CacheKeys |-> Absent]
    /\ IdleDash

NextStats ==
    \/ StatsCalled
    \/ DownloadReplied
    \/ DownloadParsed
    \/ DownloadReturned
    \/ ComputeStats

SpecStats == InitStats /\ [][NextStats]_vars

----------------------------------------------------------------------------
(* The optimizer on a covariance matrix that is not positive semi-definite *)
(* and what the route does with its answer: SpecIll draws such a matrix,   *)
(* optimizes, and continues as lines 37-56 of the route do.                *)

IllInstances ==
    { [mu |-> <<80>>,           cov |-> <<(<<-100>>)>>],
      [mu |-> <<50, 100>>,      cov |-> <<(<<400, 900>>), (<<900, 400>>)>>],
      [mu |-> <<50, 100>>,      cov |-> Diag2(400, -400)],
      [mu |-> <<50, 100, 150>>, cov |-> Diag3(600, -200, 1500)] }

\* lines 37-56: wStar goes to computeMarginalUtilities as it was returned
HandWeightsOn ==
    /\ pc = "optimized"
    /\ pc' = "marginal"
    /\ UNCHANGED <<copy, failure, optVars, muVars, featVars, reqVars,
                   statVars, concVars, dashVars>>

InitIll ==
    /\ pc = "optimize"
    /\ copy \in {1, 2}
    /\ \E inst \in IllInstances : muVec = inst.mu /\ covMat = inst.cov
    /\ targetReturn \in {Fin(t) : t \in OptTargets}
    /\ wStar = <<>>
    /\ failure = ""
    /\ universe = SubSeq(UNIVERSE, 1, Len(muVec))
    /\ heldIdx = {}
    /\ metricsArr = <<>>
    /\ IdleStat
    /\ IdleConc
    /\ IdleDash
    /\ IdleFeat
    /\ IdleReq

NextIll == Optimize \/ HandWeightsOn \/ MarginalUtilities

SpecIll == InitIll /\ [][NextIll]_vars

----------------------------------------------------------------------------
(* Two recommendation requests in flight at once: the route of part_001    *)
(* from the arrival of the body to the response.  A request runs until it  *)
(* awaits: the body, a fetch, the body of a reply, the return of an async  *)
(* function to its caller (fetchWeeklySeries, fetchOverview, computeStats, *)
(* getFundamentalMap), InferenceSession.create, session.run; the other may *)
(* run in between.  readCache and writeCache are synchronous.  The value a *)
(* call of a fetch function settled with is `got`: the file or reply it    *)
(* returns, or Absent when it threw.  The provider answers the same for a  *)
(* ticker whenever it is asked, and so do the two files of the route and   *)
(* the scorer.  `copy` is the featureEngineering the route is linked with: *)
(* 1 is featureEngineering.ts, 2 the copy with normInv.                    *)

\* Object.keys(ts).sort() and the bars in that order
AscBars(ts) ==
    [i \in 1..Cardinality(DOMAIN ts) |-> ts[SortAsc(DOMAIN ts)[i]]]

NoStats == [universe |-> <<>>, muVec |-> <<>>, covMat |-> <<>>,
            latestPrices |-> <<>>]

Returned(st) == [universe |-> st.universe, muVec |-> st.muVec,
                 covMat |-> st.covMat, latestPrices |-> st.latestPrices]

\* getFundamentalMap threw (a fetch of its loop did)
FailedResult(target) ==
    [status |-> 500, target |-> target, stats |-> NoStats,
     fundamentals |-> <<>>]

\* the map getFundamentalMap returns
ResultOf(target, stats, overviews, series) ==
    [status |-> 200, target |-> target, stats |-> stats,
     fundamentals |->
         getFundamentalMap(stats.universe, overviews,
             [t \in Range(stats.universe) |-> AscBars(series[t])])]

\* the ticker a request is at
TickerAt(q) ==
    IF q.phase = "stats" THEN UNIVERSE[q.i] ELSE q.stats.universe[q.i]

\* fetchWeeklySeries(t) up to its first await (lines 41-48): a hit returns
\* the cached series, and on a miss the request is sent
CallWeekly(q, c) ==
    IF c[weeklyKey(TickerAt(q))].ok
    THEN [q EXCEPT !.pc = "weekly-settled", !.got = c[weeklyKey(TickerAt(q))]]
    ELSE [q EXCEPT !.pc = "weekly-fetch"]

\* fetchOverview(t) up to its first await (lines 60-67)
CallOverview(q, c) ==
    IF c[overviewKey(TickerAt(q))].ok
    THEN [q EXCEPT !.pc = "overview-settled",
                   !.got = c[overviewKey(TickerAt(q))]]
    ELSE [q EXCEPT !.pc = "overview-fetch"]

\* where a request is once getFundamentalMap has settled: the route awaits
\* it (line 68) and resumes in a later step; a call on its own is over
Handed(q) == IF q.route THEN "after-fundamentals" ELSE "done"

\* getFundamentalMap: fetchOverview is called for the next symbol, or the
\* loop has ended and the map is returned
FundsNext(q, c) ==
    IF q.i < Len(q.stats.universe)
    THEN [req |-> CallOverview([q EXCEPT !.i = q.i + 1], c), cache |-> c]
    ELSE [req |-> [q EXCEPT !.pc = Handed(q),
                            !.result = ResultOf(q.target, q.stats,
                                                q.overviews, q.series)],
          cache |-> c]

\* the end of computeStats: it throws, or writes its four files and
\* returns; the route, which awaits it, goes on in a later step
StatsDone(q, c, st) ==
    IF st.error # ""
    THEN [req |-> [q EXCEPT !.pc = "after-stats", !.statsError = st.error],
          cache |-> c]
    ELSE [req |-> [q EXCEPT !.pc = "after-stats", !.stats = Returned(st)],
          cache |-> WriteStats(c, st)]

\* the loop of computeStats: fetchWeeklySeries is called for the next
\* ticker, or the loop has ended and the rest of computeStats runs
StatsNext(q, c) ==
    IF q.i < Len(UNIVERSE)
    THEN [req |-> CallWeekly([q EXCEPT !.i = q.i + 1], c), cache |-> c]
    ELSE StatsDone(q, c, computeStats(q.seriesMap))

\* fetchWeeklySeries returned s to its caller
GotSeries(q, c, s) ==
    IF q.phase = "stats"
    THEN StatsNext([q EXCEPT !.seriesMap = Assigned(@, TickerAt(q), s)], c)
    ELSE FundsNext([q EXCEPT !.series = (TickerAt(q) :> s.ts) @@ @], c)

\* fetchWeeklySeries threw: computeStats passes the ticker over,
\* getFundamentalMap lets the exception through to its caller
NoSeriesGot(q, c) ==
    IF q.phase = "stats" THEN StatsNext(q, c)
    ELSE [req |-> [q EXCEPT !.pc = Handed(q),
                            !.result = FailedResult(q.target)],
          cache |-> c]

Becomes(r, next) ==
    /\ reqs' = [reqs EXCEPT ![r] = next.req]
    /\ cache' = next.cache

\* the reply to the fetch of line 48 arrives: fetchWeeklySeries awaits its
\* body (line 49)
WeeklyFetched(r) ==
    /\ reqs[r].pc = "weekly-fetch"
    /\ Becomes(r, [req |-> [reqs[r] EXCEPT !.pc = "weekly-json"],
                    cache |-> cache])
    /\ UNCHANGED <<pc, copy, failure, optVars, muVars, featVars, reqVars,
                   statVars, provider, cache0,
                   dashVars>>

\* the body arrives (lines 49-57): a series is written and returned; for a
\* reply without a series writeCache throws and nothing is written
WeeklyParsed(r) ==
    /\ reqs[r].pc = "weekly-json"
    /\ IF provider.weekly[TickerAt(reqs[r])].ok
       THEN Becomes(r,
                [req |-> [reqs[r] EXCEPT
                             !.pc = "weekly-settled",
                             !.got = File(provider.weekly[
                                              TickerAt(reqs[r])].ts)],
                 cache |-> writeCache(cache, weeklyKey(TickerAt(reqs[r])),
                               provider.weekly[TickerAt(reqs[r])].ts)])
       ELSE Becomes(r, [req |-> [reqs[r] EXCEPT !.pc = "weekly-settled",
                                                !.got = Absent],
                        cache |-> cache])
    /\ UNCHANGED <<pc, copy, failure, optVars, muVars, featVars, reqVars,
                   statVars, provider, cache0,
                   dashVars>>

\* the caller's await of fetchWeeklySeries resumes (computeStats line 90,
\* getFundamentalMap line 251) and the caller runs to its next await
WeeklyReturned(r) ==
    /\ reqs[r].pc = "weekly-settled"
    /\ IF reqs[r].got.ok
       THEN Becomes(r, GotSeries([reqs[r] EXCEPT !.got = Absent], cache,
                                 Series(reqs[r].got.data)))
       ELSE Becomes(r, NoSeriesGot(reqs[r], cache))
    /\ UNCHANGED <<pc, copy, failure, optVars, muVars, featVars, reqVars,
                   statVars, provider, cache0,
                   dashVars>>

\* part_001 lines 25-34, from the arrival of the body: the target is
\* validated (400), and computeStats is called, which is then at "stats"
Validated(q) ==
    LET t == Number(Get(q.body, "targetReturn"))
        b == Number(Coalesce(Get(q.body, "budget"), Fin(0)))
    IN  IF ~IsFinite(t)
        THEN [q EXCEPT !.target = t, !.budget = b, !.pc = "done",
                       !.response =
                           errJson("targetReturn must be a number", 400)]
        ELSE [q EXCEPT !.target = t, !.budget = b, !.pc = "stats"]

\* Array.isArray(body?.holdings) ? body.holdings : []
HoldingsOf(b) ==
    LET h == Get(b, "holdings")
    IN  IF h.k = "array" THEN h.a ELSE <<>>

\* part_001 lines 37-68 for the weights w the optimizer returned: the held
\* tickers, the marginal utilities of the copy cp of featureEngineering
\* (when the call throws, the catch of line 142 answers 500), the
\* candidates; without a candidate the answer is the empty 200, and
\* otherwise getFundamentalMap(universe) is called, which is then at "funds"
Selected(q, w, cp) ==
    LET held  == HeldTickersOf(HoldingsOf(q.body))
        hIdx  == {i - 1 : i \in {j \in 1..Len(q.stats.universe) :
                                    q.stats.universe[j] \in held}}
        res   == computeMarginalUtilities(w, q.stats.muVec, q.stats.covMat,
                                          q.stats.universe, hIdx, cp)
        mm    == toMarginalMap(res.metrics)
        IsCandidate(t) == t \notin held /\ t \in DOMAIN mm
        cands == SelectSeq(q.stats.universe, IsCandidate)
    IN  IF res.threw
        THEN [q EXCEPT !.wStar = w, !.pc = "done", !.response = Failed]
        ELSE IF cands = <<>>
        THEN [q EXCEPT !.wStar = w, !.marginalMap = mm, !.pc = "done",
                       !.response = okJson(<<>>, <<>>)]
        ELSE [q EXCEPT !.wStar = w, !.marginalMap = mm,
                       !.candidates = cands, !.phase = "funds", !.i = 1,
                       !.pc = "funds"]

\* a response that ends the request
Responded(q, answer) == [q EXCEPT !.pc = "done", !.response = answer]

\* part_001 lines 68-112 once getFundamentalMap has settled: when it threw
\* the catch answers; else the fundamentals are narrowed, the feature
\* matrix built, the two files read, the dimension checked and
\* InferenceSession.create called
Assembled(q, files) ==
    IF q.result.status # 200 THEN Responded(q, Failed)
    ELSE LET funds == Narrow(q.result.fundamentals, q.stats.universe)
             rows  == buildFeatureMatrix(q.candidates, q.marginalMap, funds,
                                         q.target)
             order == files.cols.v
         IN  IF Len(rows) = 0
             THEN Responded([q EXCEPT !.X = rows],
                      errJson("Feature matrix is empty or malformed", 500))
             ELSE IF ~files.model
             THEN Responded([q EXCEPT !.X = rows],
                            errJson("ONNX model not found", 500))
             ELSE IF files.cols.k = "missing"
             THEN Responded([q EXCEPT !.X = rows],
                            errJson("Columns JSON not found", 500))
             ELSE IF files.cols.k = "garbled"
             THEN Responded([q EXCEPT !.X = rows], Failed)
             ELSE IF DimensionMismatch(order, rows)
             THEN Responded([q EXCEPT !.X = rows, !.featureOrder = order],
                            errJson("Feature dimension mismatch", 500))
             ELSE [q EXCEPT !.X = rows, !.featureOrder = order,
                            !.pc = "await-session"]

\* part_001 lines 112-115: InferenceSession.create resolves, and session.run
\* is called with the tensor of X, or it rejects
SessionCreated(q, created) ==
    IF created THEN [q EXCEPT !.pc = "await-scorer"]
    ELSE Responded(q, Failed)

\* part_001 lines 115-141: session.run resolves with the scores, which are
\* ranked and sized, or it rejects
Scored(q, out) ==
    IF out.threw THEN Responded(q, Failed)
    ELSE Responded(q, okJson(Recommendations(Ranked(q.candidates, out.scores),
                                             q.budget, q.stats.latestPrices),
                             q.featureOrder))

\* session.run of a scorer on the rows: it rejects, or scores every row
\* with the model of the file, here the sign of the first column
SessionRun(scorer, rows) ==
    IF scorer = "rejects" THEN [threw |-> TRUE, scores |-> <<>>]
    ELSE [threw |-> FALSE,
          scores |-> [i \in 1..Len(rows) |->
                         IF IsFinite(rows[i][1]) /\ rows[i][1].v > 0
                         THEN 2 ELSE 1]]

\* the body of the request arrives (line 25); the route runs to the first
\* await of computeStats, which is in its first call of fetchWeeklySeries
RouteRequest(r) ==
    /\ reqs[r].pc = "request"
    /\ Becomes(r, [req |-> IF Validated(reqs[r]).pc = "done"
                           THEN Validated(reqs[r])
                           ELSE CallWeekly(Validated(reqs[r]), cache),
                    cache |-> cache])
    /\ UNCHANGED <<pc, copy, failure, optVars, muVars, featVars, reqVars,
                   statVars, provider, cache0,
                   dashVars>>

\* the await of computeStats resumes (line 34): it threw and the catch
\* answers 500, or the route runs on to its response or to the first await
\* of getFundamentalMap, which is in its first call of fetchOverview
RouteAfterStats(r) ==
    /\ reqs[r].pc = "after-stats"
    /\ IF reqs[r].statsError # ""
       THEN Becomes(r, [req |-> Responded(reqs[r], Failed), cache |-> cache])
       ELSE \E w \in meanVarianceOptimization(reqs[r].stats.muVec,
                                              reqs[r].stats.covMat,
                                              reqs[r].target.v) :
               Becomes(r, [req |-> IF Selected(reqs[r], w, copy).pc = "done"
                                   THEN Selected(reqs[r], w, copy)
                                   ELSE CallOverview(
                                            Selected(reqs[r], w, copy),
                                            cache),
                           cache |-> cache])
    /\ UNCHANGED <<pc, copy, failure, optVars, muVars, featVars, reqVars,
                   statVars, provider, cache0,
                   dashVars>>

\* the await of getFundamentalMap resumes (line 68)
RouteAfterFundamentals(r) ==
    /\ reqs[r].pc = "after-fundamentals"
    /\ Becomes(r, [req |-> Assembled(reqs[r], provider.files),
                    cache |-> cache])
    /\ UNCHANGED <<pc, copy, failure, optVars, muVars, featVars, reqVars,
                   statVars, provider, cache0,
                   dashVars>>

\* the await of InferenceSession.create resumes (line 112)
RouteSessionCreated(r) ==
    /\ reqs[r].pc = "await-session"
    /\ Becomes(r, [req |-> SessionCreated(reqs[r], provider.session),
                    cache |-> cache])
    /\ UNCHANGED <<pc, copy, failure, optVars, muVars, featVars, reqVars,
                   statVars, provider, cache0,
                   dashVars>>

\* the await of session.run resumes (line 115)
RouteAfterScoring(r) ==
    /\ reqs[r].pc = "await-scorer"
    /\ Becomes(r, [req |-> Scored(reqs[r],
                               SessionRun(provider.scorer, reqs[r].X)),
                    cache |-> cache])
    /\ UNCHANGED <<pc, copy, failure, optVars, muVars, featVars, reqVars,
                   statVars, provider, cache0,
                   dashVars>>

\* const o = await fetchOverview(sym)
GotOverview(q, o) ==
    [q EXCEPT !.overviews = (TickerAt(q) :> o) @@ @, !.got = Absent]

\* the caller reaches its first call of fetchOverview, which runs up to
\* its await
OverviewRead(r) ==
    /\ reqs[r].pc = "overview-read"
    /\ Becomes(r, [req |-> CallOverview(reqs[r], cache), cache |-> cache])
    /\ UNCHANGED <<pc, copy, failure, optVars, muVars, featVars, reqVars,
                   statVars, provider, cache0,
                   dashVars>>

\* the fetch of line 67 settles: the reply arrives and fetchOverview awaits
\* its body (line 68), or the fetch fails and fetchOverview throws
OverviewFetched(r) ==
    /\ reqs[r].pc = "overview-fetch"
    /\ IF provider.overview[TickerAt(reqs[r])].ok
       THEN Becomes(r, [req |-> [reqs[r] EXCEPT !.pc = "overview-json"],
                        cache |-> cache])
       ELSE Becomes(r, [req |-> [reqs[r] EXCEPT !.pc = "overview-settled",
                                                !.got = Absent],
                        cache |-> cache])
    /\ UNCHANGED <<pc, copy, failure, optVars, muVars, featVars, reqVars,
                   statVars, provider, cache0,
                   dashVars>>

\* the body arrives (lines 68-70): whatever it is, it is written and
\* returned
OverviewParsed(r) ==
    /\ reqs[r].pc = "overview-json"
    /\ Becomes(r,
           [req |-> [reqs[r] EXCEPT
                        !.pc = "overview-settled",
                        !.got = File(provider.overview[
                                         TickerAt(reqs[r])].data)],
            cache |-> writeCache(cache, overviewKey(TickerAt(reqs[r])),
                          provider.overview[TickerAt(reqs[r])].data)])
    /\ UNCHANGED <<pc, copy, failure, optVars, muVars, featVars, reqVars,
                   statVars, provider, cache0,
                   dashVars>>

\* the await of fetchOverview resumes (getFundamentalMap line 250): o is
\* assigned and fetchWeeklySeries is called; a throw goes through to the
\* caller of getFundamentalMap
OverviewReturned(r) ==
    /\ reqs[r].pc = "overview-settled"
    /\ IF reqs[r].got.ok
       THEN Becomes(r, [req |-> CallWeekly(GotOverview(reqs[r],
                                               reqs[r].got.data), cache),
                        cache |-> cache])
       ELSE Becomes(r, [req |-> [reqs[r] EXCEPT
                                    !.pc = Handed(reqs[r]),
                                    !.result = FailedResult(reqs[r].target)],
                        cache |-> cache])
    /\ UNCHANGED <<pc, copy, failure, optVars, muVars, featVars, reqVars,
                   statVars, provider, cache0,
                   dashVars>>

\* the series of the provider's worlds: two instruments with 31 weeks of
\* prices that move apart, one with a bar that has no close, and three for
\* which the provider has an empty series
SeriesOf(t) ==
    CASE t = AMZN -> Series(BarsEvery(1, 31, 100000, 1500, 3))
      [] t = GOOG -> Series(Bars(1, 31, 50000, 600, {}))
      [] t = JPM  -> Series(Bars(1, 31, 15000, 0, {2}))
      [] OTHER    -> Series(<<>>)

StaleSeries == BarsEvery(1, 31, 70000, 1600, 4)

\* the two files of the route, as they should be and with a column short
FilesGood  == [model |-> TRUE, cols |-> [k |-> "json", v |-> FEATURE_ORDER]]
FilesShort == [model |-> TRUE, cols |-> [k |-> "json", v |-> Names7]]

\* what the collaborators answer: the provider per ticker, the two files,
\* InferenceSession.create and session.run
World(weeklyOf, overviewOf, files, session, scorer) ==
    [weekly   |-> weeklyOf,
     overview |-> overviewOf,
     files    |-> files,
     session  |-> session,
     scorer   |-> scorer]

AllSeries == [t \in Range(UNIVERSE) |-> SeriesOf(t)]
AllOverviews == [t \in Range(UNIVERSE) |-> File(OverviewComplete)]

ProviderWorlds ==
    { World(AllSeries, AllOverviews, FilesGood, TRUE, "scores"),
      World([AllSeries EXCEPT ![AMZN] = NoSeries],
            [AllOverviews EXCEPT ![GOOG] = File(OverviewNote)],
            FilesGood, TRUE, "scores"),
      World([AllSeries EXCEPT ![GOOG] = Series(Bars(1, 30, 50000, 600, {}))],
            AllOverviews, FilesGood, TRUE, "scores"),
      World(AllSeries, [AllOverviews EXCEPT ![GOOG] = Absent],
            FilesGood, TRUE, "scores"),
      World(AllSeries, AllOverviews, FilesShort, TRUE, "scores"),
      World(AllSeries, AllOverviews, FilesGood, FALSE, "scores"),
      World(AllSeries, AllOverviews, FilesGood, TRUE, "rejects") }

\* the cache files found: none, old files of one ticker, or everything the
\* provider has
CacheWorlds(p) ==
    { [key \in CacheKeys |-> Absent],
      [key \in CacheKeys |->
          IF key = <<"weekly", AMZN>> THEN File(StaleSeries)
          ELSE IF key = <<"overview", AMZN>> THEN File(OverviewNone)
          ELSE Absent],
      [key \in CacheKeys |->
          IF key[1] = "weekly" /\ p.weekly[key[2]].ok
          THEN File(p.weekly[key[2]].ts)
          ELSE IF key[1] = "overview" /\ p.overview[key[2]].ok
          THEN File(p.overview[key[2]].data)
          ELSE Absent] }

\* the bodies of the two requests: the first holds nothing; the second
\* holds one instrument or every instrument, or sends a target that is no
\* number
FirstBody ==
    [holdings |-> Arr(<<>>), targetReturn |-> Fin(60),
     budget |-> Fin(100000)]

SecondBodies ==
    { [holdings |-> Arr(<<Holding(<<"a", "m", "z", "n">>)>>),
       targetReturn |-> Str(<<"9", "0">>), budget |-> Undef],
      [holdings |-> Arr(<<Holding(AMZN), Holding(GOOG)>>),
       targetReturn |-> Fin(90), budget |-> Fin(30000)],
      [holdings |-> Undef, targetReturn |-> Str(<<"a", "b", "c">>),
       budget |-> Fin(30000)] }

\* a request whose body is about to arrive, with the locals of the route
NewRequest(b) ==
    [pc |-> "request", phase |-> "stats", i |-> 1, route |-> TRUE,
     body |-> b, target |-> Fin(0), budget |-> Fin(0),
     seriesMap |-> [t \in Range(UNIVERSE) |-> NoSeries],
     stats |-> NoStats, statsError |-> "",
     wStar |-> <<>>, marginalMap |-> <<>>, candidates |-> <<>>,
     overviews |-> <<>>, series |-> <<>>, got |-> Absent,
     result |-> [status |-> 0, target |-> Fin(0), stats |-> NoStats,
                 fundamentals |-> <<>>],
     X |-> <<>>, featureOrder |-> <<>>, response |-> NoResponse]

InitConc ==
    /\ provider \in ProviderWorlds
    /\ cache0 \in CacheWorlds(provider)
    /\ cache = cache0
    /\ \E b \in SecondBodies :
          reqs = <<NewRequest(FirstBody), NewRequest(b)>>
    /\ pc = "concurrent"
    /\ copy \in {1, 2}
    /\ failure = ""
    /\ muVec = <<>> /\ covMat = <<>> /\ wStar = <<>>
    /\ IdleOpt
    /\ IdleMU
    /\ IdleFeat
    /\ IdleReq
    /\ IdleStat
    /\ IdleDash

NextConc ==
    \E r \in 1..2 :
        \/ RouteRequest(r)
        \/ WeeklyFetched(r)
        \/ WeeklyParsed(r)
        \/ WeeklyReturned(r)
        \/ RouteAfterStats(r)
        \/ OverviewFetched(r)
        \/ OverviewParsed(r)
        \/ OverviewReturned(r)
        \/ RouteAfterFundamentals(r)
        \/ RouteSessionCreated(r)
        \/ RouteAfterScoring(r)

SpecConc == InitConc /\ [][NextConc]_vars

\* Two calls of getFundamentalMap in flight at once, each for its own list
\* of tickers: fetchOverview, then fetchWeeklySeries, for one ticker after
\* the other.  The result of a call is the map it returns, or the failure
\* of a fetch, which it lets through.
CallTickers == << <<AMZN, GOOG>>, <<GOOG, AMZN>> >>

NewCall(tickers) ==
    [NewRequest(EmptyObject) EXCEPT
        !.pc = "overview-read", !.phase = "funds", !.route = FALSE,
        !.stats = [NoStats EXCEPT !.universe = tickers]]

InitCache ==
    /\ provider \in ProviderWorlds
    /\ cache0 \in CacheWorlds(provider)
    /\ cache = cache0
    /\ reqs = [r \in 1..2 |-> NewCall(CallTickers[r])]
    /\ pc = "fundamentals"
    /\ copy = 1
    /\ failure = ""
    /\ muVec = <<>> /\ covMat = <<>> /\ wStar = <<>>
    /\ IdleOpt
    /\ IdleMU
    /\ IdleFeat
    /\ IdleReq
    /\ IdleStat
    /\ IdleDash

NextCache ==
    \E r \in 1..2 :
        \/ OverviewRead(r)
        \/ OverviewFetched(r)
        \/ OverviewParsed(r)
        \/ OverviewReturned(r)
        \/ WeeklyFetched(r)
        \/ WeeklyParsed(r)
        \/ WeeklyReturned(r)

SpecCache == InitCache /\ [][NextCache]_vars

----------------------------------------------------------------------------
(* PortfolioOptimizationDashboard.tsx: the holdings rows and their prices. *)
(* A row is its ticker text and the price it shows, in cents; a fetch in   *)
(* flight is the row index and the ticker its callback closed over, and    *)
(* the await fetchPrice is at.  The provider answers the same for a ticker *)
(* whenever it is asked.  A handler of the page and the arrival of a reply *)
(* or of its body each run to the next return to the event loop.           *)

MaxRows == 2
MaxPending == 2

\* const norm = (t) => t.trim().toUpperCase()
norm(t) == toUpperCase(trim(t))

\* what the user may type into a ticker field, and choose from the dropdown
TickerTexts == {<<>>, <<"m", "a">>, MA, AMZN, <<"Q", "Q">>}
DropdownSymbols == {MA, AMZN}

\* what tryGlobal returns for a ticker: the price of the GLOBAL_QUOTE
\* reply, or null for a reply without one (the provider's note)
GlobalQuote(t) ==
    CASE t = AMZN -> Fin(20000)
      [] OTHER    -> Null

\* what tryWeekly returns for a ticker: the latest close of its weekly
\* series, or null for a reply without a series
WeeklyQuote(t) ==
    CASE t = AMZN -> Fin(20000)
      [] t = MA   -> Fin(50000)
      [] OTHER    -> Null

EmptyRow == [ticker |-> <<>>, price |-> 0]

\* holdings.map(h => norm(h.ticker)).join("|")
RECURSIVE JoinFrom(_, _)
JoinFrom(h, i) ==
    IF i > Len(h) THEN <<>>
    ELSE (IF i > 1 THEN <<"|">> ELSE <<>>) \o norm(h[i].ticker)
             \o JoinFrom(h, i + 1)

tickersKey(h) == JoinFrom(h, 1)

\* a call of fetchPrice that went to the provider: it awaits the reply to
\* GLOBAL_QUOTE
Fetch(idx, t) == [idx |-> idx, ticker |-> t, at |-> "global-reply"]

\* the fetches of the reprice effect: one per row with a ticker, with the
\* zero-based index of the row
RepriceFetches(h) ==
    LET rows == SelectSeq([i \in 1..Len(h) |-> i],
                          LAMBDA i : norm(h[i].ticker) # <<>>)
    IN  [k \in 1..Len(rows) |-> Fetch(rows[k] - 1, norm(h[rows[k]].ticker))]

\* the callback of a fetch: the price goes into the row at the index, if
\* there is a row at that index
WritePrice(h, idx, px) ==
    IF idx + 1 <= Len(h) THEN [h EXCEPT ![idx + 1].price = px] ELSE h

\* fetchPrice called for each of fs in turn: a cached ticker resolves at
\* once and its callback runs; any other goes to the provider
RECURSIVE Launch(_, _, _)
Launch(fs, k, st) ==
    IF k > Len(fs) THEN st
    ELSE Launch(fs, k + 1,
             IF fs[k].ticker \in DOMAIN priceCache
             THEN [st EXCEPT !.holdings =
                      WritePrice(@, fs[k].idx, priceCache[fs[k].ticker])]
             ELSE [st EXCEPT !.pending = Append(@, fs[k])])

\* the state after a handler set the rows to h and called fetchPrice for
\* own: the component renders, and the effect runs when tickersKey changed
Rendered(h, own) ==
    Launch(own \o (IF tickersKey(h) # tickersKey(holdings)
                   THEN RepriceFetches(h) ELSE <<>>),
           1, [holdings |-> h, pending |-> pending])

Commit(st) ==
    /\ Len(st.pending) <= MaxPending
    /\ holdings' = st.holdings
    /\ pending' = st.pending
    /\ priceCache' = priceCache

DashIdle ==
    UNCHANGED <<pc, copy, failure, optVars, muVars, featVars, reqVars,
                statVars, concVars>>

\* onChange of a ticker field: update(i, "ticker", txt)
UpdateTicker(i, txt) ==
    /\ pc = "dashboard"
    /\ i \in 1..Len(holdings)
    /\ holdings[i].ticker # txt
    /\ Commit(Rendered([holdings EXCEPT ![i].ticker = txt], <<>>))
    /\ DashIdle

\* onSelect of a ticker field: setTicker(i, sym), sym normalised by choose
setTicker(i, sym) ==
    /\ pc = "dashboard"
    /\ i \in 1..Len(holdings)
    /\ Commit(Rendered([holdings EXCEPT ![i].ticker = sym],
                       IF norm(sym) = <<>> THEN <<>>
                       ELSE <<Fetch(i - 1, norm(sym))>>))
    /\ DashIdle

\* add: a new empty row at the end
AddRow ==
    /\ pc = "dashboard"
    /\ Len(holdings) < MaxRows
    /\ Commit(Rendered(Append(holdings, EmptyRow), <<>>))
    /\ DashIdle

\* del(i): the rows after i move up by one
DelRow(i) ==
    /\ pc = "dashboard"
    /\ i \in 1..Len(holdings)
    /\ Commit(Rendered(SubSeq(holdings, 1, i - 1)
                           \o SubSeq(holdings, i + 1, Len(holdings)),
                       <<>>))
    /\ DashIdle

\* pending without its k-th fetch
Without(k) ==
    SubSeq(pending, 1, k - 1) \o SubSeq(pending, k + 1, Len(pending))

\* the k-th fetch in flight moves on to its next await
Awaits(k, at) ==
    /\ pending' = [pending EXCEPT ![k].at = at]
    /\ UNCHANGED <<holdings, priceCache>>

\* fetchPrice returns px for the k-th fetch in flight (lines 81-83): a
\* price is cached and handed to the callback, which writes it into the
\* row at the index it closed over; null is handed over and ignored
FetchResolves(k, px) ==
    /\ pending' = Without(k)
    /\ IF px = Null
       THEN UNCHANGED <<holdings, priceCache>>
       ELSE /\ priceCache' = (pending[k].ticker :> px.v) @@ priceCache
            /\ holdings' = WritePrice(holdings, pending[k].idx, px.v)

\* the reply to GLOBAL_QUOTE arrives (line 61): tryGlobal awaits its body
GlobalReplied(k) ==
    /\ pc = "dashboard"
    /\ k \in 1..Len(pending)
    /\ pending[k].at = "global-reply"
    /\ Awaits(k, "global-body")
    /\ DashIdle

\* the body of the GLOBAL_QUOTE reply arrives (lines 62-64, 81): with a
\* price fetchPrice returns it, and without one tryWeekly sends its request
GlobalParsed(k) ==
    /\ pc = "dashboard"
    /\ k \in 1..Len(pending)
    /\ pending[k].at = "global-body"
    /\ IF GlobalQuote(pending[k].ticker) # Null
       THEN FetchResolves(k, GlobalQuote(pending[k].ticker))
       ELSE Awaits(k, "weekly-reply")
    /\ DashIdle

\* the reply to TIME_SERIES_WEEKLY_ADJUSTED arrives (line 69)
FallbackReplied(k) ==
    /\ pc = "dashboard"
    /\ k \in 1..Len(pending)
    /\ pending[k].at = "weekly-reply"
    /\ Awaits(k, "weekly-body")
    /\ DashIdle

\* the body of the weekly reply arrives (lines 70-77, 81-83): fetchPrice
\* returns the latest close, or null
FallbackParsed(k) ==
    /\ pc = "dashboard"
    /\ k \in 1..Len(pending)
    /\ pending[k].at = "weekly-body"
    /\ FetchResolves(k, WeeklyQuote(pending[k].ticker))
    /\ DashIdle

InitDash ==
    /\ pc = "dashboard"
    /\ holdings = <<EmptyRow>>
    /\ priceCache = <<>>
    /\ pending = <<>>
    /\ copy = 1
    /\ failure = ""
    /\ muVec = <<>> /\ covMat = <<>> /\ wStar = <<>>
    /\ IdleOpt
    /\ IdleMU
    /\ IdleFeat
    /\ IdleReq
    /\ IdleStat
    /\ IdleConc

NextDash ==
    \/ \E i \in 1..MaxRows, txt \in TickerTexts : UpdateTicker(i, txt)
    \/ \E i \in 1..MaxRows, sym \in DropdownSymbols : setTicker(i, sym)
    \/ AddRow
    \/ \E i \in 1..MaxRows : DelRow(i)
    \/ \E k \in 1..MaxPending : GlobalReplied(k)
    \/ \E k \in 1..MaxPending : GlobalParsed(k)
    \/ \E k \in 1..MaxPending : FallbackReplied(k)
    \/ \E k \in 1..MaxPending : FallbackParsed(k)

SpecDash == InitDash /\ [][NextDash]_vars

----------------------------------------------------------------------------
(* Ranking and sizing as a pure function (lines 119-141 of the route):     *)
(* SpecRank draws the candidates, a prefix of the universe, their scores   *)
(* and the budget.                                                         *)

MaxScore == 3

RankPrices ==
    [t \in Range(UNIVERSE) |->
        CASE t = AMZN -> 20000 [] t = GOOG -> 15000 [] t = JPM -> 25000
          [] t = MA -> 50000 [] t = XOM -> 11000 [] OTHER -> 16000]

RankAndSize ==
    /\ pc = "rank"
    /\ response' = okJson(Recommendations(Ranked(candidates, scores), budget,
                                          latestPrices),
                          featureOrder)
    /\ pc' = "ranked"
    /\ UNCHANGED <<copy, failure, optVars, muVars, featVars, body, budget,
                   heldTickers, latestPrices, featureOrder, scores, calls,
                   statVars, concVars, dashVars>>

InitRank ==
    /\ pc = "rank"
    /\ copy = 1
    /\ \E n \in 1..Len(UNIVERSE) :
          /\ candidates = SubSeq(UNIVERSE, 1, n)
          /\ scores \in [1..n -> 1..MaxScore]
    /\ budget \in {Fin(0), Fin(100000)}
    /\ latestPrices = RankPrices
    /\ featureOrder = FEATURE_ORDER
    /\ body = <<>>
    /\ heldTickers = {}
    /\ response = NoResponse
    /\ calls = <<>>
    /\ muVec = <<>> /\ covMat = <<>> /\ wStar = <<>>
    /\ failure = ""
    /\ IdleStat
    /\ IdleConc
    /\ IdleDash
    /\ IdleOpt
    /\ IdleMU
    /\ marginalMap = <<>> /\ fundamentals = <<>> /\ X = <<>>

NextRank == RankAndSize

SpecRank == InitRank /\ [][NextRank]_vars

----------------------------------------------------------------------------
(* Claims                                                                  *)

\* C1: the list returned by computeMarginalUtilities has no entry whose
\* ticker sits at an index of the held set.
C1_HeldNeverInMetrics ==
    pc = "marginal-done" =>
        \A k \in 1..Len(metricsArr) :
            \A i \in heldIdx : metricsArr[k].ticker # universe[i + 1]

C1_Witness ==
    /\ pc = "marginal-done"
    /\ heldIdx = {0, 2}
    /\ Len(universe) = 3
    /\ Len(metricsArr) = 1
    /\ metricsArr[1].ticker = GOOG

\* C2: buildFeatureMatrix returns one row per candidate, in the order of
\* candidates, each of exactly 8 entries in the order deltaSharpe,
\* deltaCvar, mom6, mom12, beta, divYield, logCap, targetReturn, whether or
\* not the candidate is in the marginal map or the fundamentals map.
C2_Field(map, t, key) == IF t \in DOMAIN map THEN map[t][key] ELSE Fin(0)

C2_RowsInContractOrder ==
    pc = "features-done" =>
        /\ Len(X) = Len(candidates)
        /\ \A i \in 1..Len(X) :
              /\ Len(X[i]) = 8
              /\ X[i] = << C2_Field(marginalMap, candidates[i], "deltaSharpe"),
                           C2_Field(marginalMap, candidates[i], "deltaCvar"),
                           C2_Field(fundamentals, candidates[i], "momentum6m"),
                           C2_Field(fundamentals, candidates[i], "momentum12m"),
                           C2_Field(fundamentals, candidates[i], "beta"),
                           C2_Field(fundamentals, candidates[i], "divYield"),
                           C2_Field(fundamentals, candidates[i], "logCap"),
                           targetReturn >>

C2_Witness ==
    /\ pc = "features-done"
    /\ candidates = <<JPM, AMZN, GOOG>>
    /\ DOMAIN marginalMap = {AMZN}
    /\ DOMAIN fundamentals = {JPM}
    /\ Len(X) = 3
    /\ X[2][1] = Fin(101) /\ X[2][5] = Fin(0)
    /\ X[1][1] = Fin(0) /\ X[1][5] = Fin(305)

\* C5: a target above max(mu) ends in an InfeasibleTarget failure and no
\* weight vector is returned.
C5_InfeasibleTargetFails ==
    (pc = "optimized" /\ targetReturn.v > MaxOf(Range(muVec))) =>
        (failure = "InfeasibleTarget" /\ wStar = <<>>)

\* C6: for a target inside the achievable range the returned weights meet
\* the return constraint as an equality, mu.w = targetReturn, to the
\* solver's resolution.
RetTol(muV) == QStep * (MaxOf(Range(muV)) - MinOf(Range(muV)))

C6_ReturnConstraintIsEquality ==
    (pc = "optimized" /\ InRange(muVec, targetReturn.v)) =>
        /\ Dot(muVec, wStar) - targetReturn.v * WUnit <= RetTol(muVec)
        /\ targetReturn.v * WUnit - Dot(muVec, wStar) <= RetTol(muVec)

\* C8: a baseline of zero variance makes computeMarginalUtilities fail with
\* DegenerateBaseline, and no metrics are returned.
C8_DegenerateBaselineFails ==
    (pc = "marginal-done" /\ portfolioVariance(wStar, covMat) = 0) =>
        (failure = "DegenerateBaseline" /\ metricsArr = <<>>)

\* the request handed its feature matrix to the scorer
HandedToScorer ==
    \E i \in 1..Len(calls) : calls[i] = "session.run"

\* C3: in the request pipeline no fundamental entry (mom6, mom12, beta,
\* divYield, logCap) of a row handed to the scorer is NaN: a fundamental the
\* provider did not supply for a candidate appears as 0.
C3_NoNaNFundamentalHandedToScorer ==
    HandedToScorer =>
        \A i \in 1..Len(X) : \A j \in 3..7 : X[i][j].k # "NaN"

\* C4: the scorer is invoked in a request only after the column-name list
\* was found as long as the rows of the feature matrix; when the lengths
\* differ the request has ended with an error response and the scorer was
\* not invoked.
C4_ScorerOnlyAfterDimensionCheck ==
    /\ HandedToScorer => Len(featureOrder) = Len(X[1])
    /\ (featureOrder # <<>> /\ X # <<>> /\ Len(featureOrder) # Len(X[1])) =>
           /\ pc = "done"
           /\ response.status = 500
           /\ response.recommendations = <<>>
           /\ ~HandedToScorer

\* a request whose columns matched, scored and answered with recommendations
C4_Witness ==
    /\ pc = "done"
    /\ HandedToScorer
    /\ Len(featureOrder) = 8
    /\ response.status = 200
    /\ response.recommendations # <<>>

\* the target as sent is absent, null, an empty string, or text that is no
\* finite number
TargetNotFinite ==
    LET t == body.o.targetReturn
    IN  /\ body.k = "object"
        /\ \/ t.k \in {"undefined", "null"}
           \/ t.k = "str" /\ (trim(t.s) = <<>> \/ ~IsFinite(StringToNumber(t.s)))

\* C9: a request whose targetReturn is not a finite number is rejected with
\* the invalid-target response (400) before any statistics, optimization or
\* scoring step runs.
C9_NonFiniteTargetRejectedFirst ==
    (TargetNotFinite /\ pc # "request") =>
        /\ calls = <<>>
        /\ response.status = 400

\* C10: with budget > 0 and K selections, a selection with a positive price
\* gets floor((budget / K) / price) shares (0 when the price exceeds the
\* bucket), and one with no positive price gets 0.
C10_SharesAreFlooredBucket ==
    (response.status = 200 /\ IsFinite(budget) /\ budget.v > 0) =>
        LET recs == response.recommendations
        IN  \A i \in 1..Len(recs) :
                recs[i].shares =
                    IF recs[i].price > 0
                    THEN Fin(budget.v \div (Len(recs) * recs[i].price))
                    ELSE Fin(0)

\* the budget as sent is absent, zero or negative
BudgetNotPositive ==
    /\ body.k = "object"
    /\ \/ body.o.budget.k = "undefined"
       \/ body.o.budget.k = "num" /\ body.o.budget.v <= 0

\* C11: when the budget is absent, zero or negative, every recommendation
\* of the response has shares = 0, whatever the prices and scores.
C11_NoBudgetNoShares ==
    (response.status = 200 /\ BudgetNotPositive) =>
        \A i \in 1..Len(response.recommendations) :
            response.recommendations[i].shares = Fin(0)

\* a response with priced recommendations to a request of negative budget
C11_Witness ==
    /\ response.status = 200
    /\ response.recommendations # <<>>
    /\ body.o.budget.k = "num" /\ body.o.budget.v < 0
    /\ \A i \in 1..Len(response.recommendations) :
           response.recommendations[i].price > 0

\* position of a ticker in the candidate list
CandidateNo(t) == CHOOSE i \in 1..Len(candidates) : candidates[i] = t

\* C12: the recommendations are in descending order of score, and two of
\* equal score are in the order they have in the candidate list.
C12_DescendingAndStable ==
    pc = "ranked" =>
        LET recs == response.recommendations
        IN  \A i, j \in 1..Len(recs) :
                i < j =>
                    \/ recs[i].score > recs[j].score
                    \/ /\ recs[i].score = recs[j].score
                       /\ CandidateNo(recs[i].ticker)
                              < CandidateNo(recs[j].ticker)

\* a ranking with a tie and with a later candidate ranked before an earlier
C12_Witness ==
    /\ pc = "ranked"
    /\ \E i, j \in 1..Len(response.recommendations) :
           /\ i < j
           /\ response.recommendations[i].score
                  = response.recommendations[j].score
    /\ \E i, j \in 1..Len(response.recommendations) :
           /\ i < j
           /\ CandidateNo(response.recommendations[i].ticker)
                  > CandidateNo(response.recommendations[j].ticker)

\* C13: exactly min(5, n) recommendations are returned, each a candidate
\* with its own score, and no candidate left out has a strictly higher score
\* than one returned.
C13_TopFive ==
    pc = "ranked" =>
        LET recs == response.recommendations
            n    == Len(candidates)
            in   == {CandidateNo(recs[i].ticker) : i \in 1..Len(recs)}
        IN  /\ Len(recs) = IF n < 5 THEN n ELSE 5
            /\ Cardinality(in) = Len(recs)
            /\ \A i \in 1..Len(recs) :
                   /\ recs[i].ticker \in Range(candidates)
                   /\ recs[i].score = scores[CandidateNo(recs[i].ticker)]
            /\ \A c \in (1..n) \ in : \A i \in 1..Len(recs) :
                   scores[c] <= recs[i].score

\* six candidates, five returned, the one left out scored strictly lower
\* than one returned
C13_Witness ==
    /\ pc = "ranked"
    /\ Len(candidates) = 6
    /\ Len(response.recommendations) = 5
    /\ \E c \in 1..6 :
           /\ \A i \in 1..5 : response.recommendations[i].ticker # candidates[c]
           /\ scores[c] < response.recommendations[1].score

\* the tickers the request lists in holdings, trimmed and upper-cased
ListedTickers ==
    IF body.k = "object" /\ body.o.holdings.k = "array"
    THEN {toUpperCase(trim(body.o.holdings.a[i].ticker.s)) :
             i \in {j \in 1..Len(body.o.holdings.a) :
                       body.o.holdings.a[j].ticker.k = "str"}}
    ELSE {}

\* C14: no recommendation of a response has a ticker that the request lists
\* in holdings, comparing after trimming and upper-casing.
C14_NoHeldTickerRecommended ==
    response.status = 200 =>
        \A i \in 1..Len(response.recommendations) :
            response.recommendations[i].ticker \notin ListedTickers

\* recommendations answered to a request that holds an instrument of the
\* universe written in lower case or with padding
C14_Witness ==
    /\ response.status = 200
    /\ response.recommendations # <<>>
    /\ \E t \in ListedTickers :
           /\ t \in Range(universe)
           /\ \E i \in 1..Len(body.o.holdings.a) :
                  /\ body.o.holdings.a[i].ticker.s # t
                  /\ toUpperCase(trim(body.o.holdings.a[i].ticker.s)) = t

\* the dates on which every instrument with data has a bar
CommonDates ==
    {d \in UNION {DOMAIN weekly[t].ts : t \in Range(TickersWithData(weekly))} :
        \A t \in Range(TickersWithData(weekly)) : d \in DOMAIN weekly[t].ts}

\* C15: computeStats fails with the insufficient-history error whenever the
\* dates common to all instruments that have data number fewer than 3, and
\* computes no returns in that case.
C15_FewCommonDatesFail ==
    (/\ pc = "stats-done"
     /\ TickersWithData(weekly) # <<>>
     /\ Cardinality(CommonDates) < 3) =>
        /\ failure = "Not enough overlapping history to compute returns."
        /\ returns = <<>>

\* the valid (computed, not substituted) weekly returns of an instrument on
\* the calendar
ValidAmong(closes) ==
    {i \in 1..(Len(closes) - 1) :
        /\ IsFinite(closes[i])
        /\ IsFinite(closes[i + 1])
        /\ closes[i].v > 0}

ValidReturns(t) ==
    ValidAmong(ArrayFrom([i \in 1..Len(alignedDates) |->
                             CloseAt(weekly[t].ts, alignedDates[i])]))

\* C16: after a successful computeStats every instrument of the universe has
\* at least 30 valid weekly returns, and the keys of latestPrices are exactly
\* the tickers of the universe.
C16_KeptAreSufficientAndPriced ==
    (pc = "stats-done" /\ failure = "") =>
        /\ \A t \in Range(universe) : Cardinality(ValidReturns(t)) >= 30
        /\ DOMAIN latestPrices = Range(universe)

\* a success where one instrument was kept with exactly 30 valid returns
\* (others substituted) and another, with a last close, was dropped
C16_Witness ==
    /\ pc = "stats-done" /\ failure = ""
    /\ \E t \in Range(universe) :
          /\ Cardinality(ValidReturns(t)) = 30
          /\ Len(alignedDates) > 31
    /\ \E t \in Range(TickersWithData(weekly)) \ Range(universe) :
          IsFinite(CloseAt(weekly[t].ts, alignedDates[Len(alignedDates)]))

\* no instrument with data passes the filter on the calendar
FilterLeavesNone ==
    /\ Len(alignedDates) >= 3
    /\ \A t \in Range(TickersWithData(weekly)) :
          \/ ~IsFinite(CloseAt(weekly[t].ts, alignedDates[Len(alignedDates)]))
          \/ Cardinality(ValidReturns(t)) < 30

\* C17: when the sufficiency filter leaves no instrument, computeStats fails
\* with the no-usable-instruments error and returns no universe, mu, Sigma
\* or prices.
C17_EmptyFilterFails ==
    (pc = "stats-done" /\ FilterLeavesNone) =>
        /\ failure = "No tickers with sufficient overlapping history."
        /\ universe = <<>>
        /\ muVec = <<>>
        /\ covMat = <<>>
        /\ latestPrices = <<>>

\* the filter emptied a universe in which an instrument had a last close
C17_Witness ==
    /\ pc = "stats-done"
    /\ FilterLeavesNone
    /\ failure = "No tickers with sufficient overlapping history."
    /\ \E t \in Range(TickersWithData(weekly)) :
          IsFinite(CloseAt(weekly[t].ts, alignedDates[Len(alignedDates)]))

\* some portfolio has a negative variance under S
NotPositiveSemiDefinite(S) == \E x \in QVectors(Len(S)) : Quad(x, S) < 0

\* C18: when the covariance matrix given to the optimizer is not positive
\* semi-definite, the failure IllConditionedCovariance is raised: the
\* optimizer returns no weight vector and the marginal utilities are not
\* computed with one.
C18_NonPSDCovarianceIsReported ==
    (pc # "optimize" /\ muVec # <<>> /\ NotPositiveSemiDefinite(covMat)) =>
        /\ failure = "IllConditionedCovariance"
        /\ wStar = <<>>
        /\ pc \notin {"marginal", "marginal-done"}

\* every step of the pipeline was called, in order
CompletePipeline ==
    calls = <<"computeStats", "meanVarianceOptimization",
              "computeMarginalUtilities", "getFundamentalMap",
              "buildFeatureMatrix", "InferenceSession.create", "session.run">>

\* the solver found the optimizer's constraints inconsistent: no long-only
\* portfolio reaches the target
OptimizerFailed ==
    /\ "meanVarianceOptimization" \in Range(calls)
    /\ targetReturn.v > MaxOf(Range(muVec))

\* C19: a finished request carries either an error response with no
\* recommendations, or a success response produced by the complete pipeline
\* with no failed step.
C19_AllOrNothing ==
    pc = "done" =>
        \/ /\ response.status # 200
           /\ response.recommendations = <<>>
        \/ /\ response.status = 200
           /\ CompletePipeline
           /\ ~OptimizerFailed

\* what a request finds for a ticker when it runs alone: the file that was
\* there when it arrived, else the provider's answer
SoloSeries(t) ==
    IF cache0[<<"weekly", t>>].ok THEN Series(cache0[<<"weekly", t>>].data)
    ELSE provider.weekly[t]

SoloOverview(t) ==
    IF cache0[<<"overview", t>>].ok THEN cache0[<<"overview", t>>]
    ELSE provider.overview[t]

\* the statistics of a request running alone
SoloStats == computeStats([t \in Range(UNIVERSE) |-> SoloSeries(t)])

\* what getFundamentalMap(universe) gives a request running alone
SoloFundamentals(q) ==
    IF \E t \in Range(q.stats.universe) :
          ~SoloOverview(t).ok \/ ~SoloSeries(t).ok
    THEN FailedResult(q.target)
    ELSE ResultOf(q.target, q.stats,
                  [t \in Range(q.stats.universe) |-> SoloOverview(t).data],
                  [t \in Range(q.stats.universe) |-> SoloSeries(t).ts])

\* the end of a request running alone, from each await on
SoloScores(q) ==
    IF q.pc = "done" THEN q
    ELSE Scored(q, SessionRun(provider.scorer, q.X))

SoloSession(q) ==
    IF q.pc = "done" THEN q
    ELSE SoloScores(SessionCreated(q, provider.session))

SoloFeatures(q) ==
    IF q.pc = "done" THEN q
    ELSE SoloSession(Assembled([q EXCEPT !.result = SoloFundamentals(q)],
                               provider.files))

SoloRoute(q, st) ==
    IF st.error # "" THEN {Responded(q, Failed)}
    ELSE {SoloFeatures(Selected([q EXCEPT !.stats = Returned(st)], w, copy)) :
            w \in meanVarianceOptimization(st.muVec, st.covMat, q.target.v)}

\* what a request has computed when it has answered: the feature matrix
\* handed to the scorer, if it got that far, and the response
Outcome(q) == [X |-> q.X, response |-> q.response]

\* the outcomes a request with the body b can have when it runs alone
SoloOutcomes(b) ==
    IF Validated(NewRequest(b)).pc = "done"
    THEN {Outcome(Validated(NewRequest(b)))}
    ELSE {Outcome(q) : q \in SoloRoute(Validated(NewRequest(b)), SoloStats)}

\* request q has the statistics st
HasStats(q, st) ==
    /\ q.statsError = st.error
    /\ q.stats = IF st.error = "" THEN Returned(st) ELSE NoStats

\* C20: in any interleaving of two concurrent requests, each request
\* computes the statistics it computes when running alone on the same cache
\* files, provider, route files and scorer, builds the feature matrix it
\* builds when running alone, and answers with a response it can give when
\* running alone (status, error, recommendations with their scores, prices
\* and shares, column names): nothing one request writes to the weekly_*,
\* overview_* and stats_* files changes what the other computes.
C20_ConcurrentRequestsIndependent ==
    [][\A r \in 1..2 :
          /\ (reqs[r].pc # "after-stats" /\ reqs'[r].pc = "after-stats") =>
                 HasStats(reqs'[r], SoloStats)
          /\ (reqs[r].pc # "done" /\ reqs'[r].pc = "done") =>
                 Outcome(reqs'[r]) \in SoloOutcomes(reqs[r].body)]_vars

\* the first request, linked with the copy that has normInv, has answered
\* 200 with recommendations after fetching and writing the overview of the
\* first instrument, while the second, which holds that instrument and
\* missed the same file before it was written, still awaits the body of the
\* provider's reply
C20_Witness ==
    /\ pc = "concurrent"
    /\ copy = 2
    /\ reqs[1].pc = "done"
    /\ reqs[1].response.status = 200
    /\ Len(reqs[1].response.recommendations) = 2
    /\ reqs[2].pc = "overview-json"
    /\ reqs[2].i = 1
    /\ reqs[2].candidates = <<GOOG>>
    /\ ~cache0[overviewKey(AMZN)].ok
    /\ cache[overviewKey(AMZN)].ok

----------------------------------------------------------------------------
\* C21: every row of the feature matrix carries, in its 8th column, the
\* request's targetReturn as the handler read it: the same value in every
\* row, and the value with which the optimizer produced the baseline
\* (recomputed here, when the rows have just been built, for the universes
\* of one and two instruments)
C21_TargetReturnColumn ==
    \A i \in 1..Len(X) :
        /\ Len(X[i]) = 8
        /\ X[i][8] = targetReturn
        /\ X[i][8] = Number(Get(BodyObject, "targetReturn"))
        /\ (pc = "await-session" /\ Len(muVec) <= 2) =>
               wStar \in meanVarianceOptimization(muVec, covMat, X[i][8].v)

C21_Witness ==
    /\ pc = "await-scorer"
    /\ Len(X) >= 2
    /\ X[1][8] = Fin(90) /\ X[2][8] = Fin(90)
    /\ Get(BodyObject, "targetReturn") = Str(<<"9", "0">>)

----------------------------------------------------------------------------
\* the zero-based indices computeMarginalUtilities reports on, in order
NonHeld ==
    LET Kept(i) == i \notin heldIdx
    IN  SelectSeq([i \in 1..Len(universe) |-> i - 1], Kept)

CvarOfCopy(w) == Cvar(copy, w, muVec, covMat)

LowerRiskSameReturn(wPert) ==
    /\ portfolioVariance(wPert, covMat) < portfolioVariance(wStar, covMat)
    /\ portfolioReturn(wPert, muVec) = portfolioReturn(wStar, muVec)

\* C22: computeMarginalUtilities reports, for every instrument that is not
\* held, deltaCvar = cvar(baseline) - cvar(perturbed) and deltaSharpe =
\* sharpe(perturbed) - sharpe(baseline); a candidate whose perturbed
\* portfolio has a strictly lower variance and the same mean return gets
\* deltaCvar > 0
C22_LowerVarianceImprovesCvar ==
    pc = "marginal-done" =>
        /\ failure = ""
        /\ Len(metricsArr) = Len(NonHeld)
        /\ \A j \in 1..Len(metricsArr) :
              LET wPert == Perturbed(wStar, NonHeld[j]) IN
              /\ metricsArr[j].deltaCvar =
                     JsSub(CvarOfCopy(wStar), CvarOfCopy(wPert))
              /\ metricsArr[j].deltaSharpe =
                     JsSub(sharpe(wPert, muVec, covMat),
                           sharpe(wStar, muVec, covMat))
              /\ LowerRiskSameReturn(wPert) =>
                     /\ IsFinite(metricsArr[j].deltaCvar)
                     /\ metricsArr[j].deltaCvar.v > 0

----------------------------------------------------------------------------
\* C24: for every candidate that is not held, the perturbed vector is the
\* baseline with the entry of the largest weight lower by eps and the entry
\* of the candidate higher by eps, also when the candidate is the instrument
\* of the largest weight
C24_EpsilonMovesFromLargest ==
    (pc = "marginal-done" /\ failure = "") =>
        \A j \in 1..Len(NonHeld) :
            LET i     == NonHeld[j]
                donor == Donor(wStar)
                wPert == Perturbed(wStar, i)
            IN  /\ wPert[donor + 1] = wStar[donor + 1] - eps
                /\ wPert[i + 1] = wStar[i + 1] + eps
                /\ \A k \in 1..Len(wStar) :
                      k \notin {donor + 1, i + 1} => wPert[k] = wStar[k]

----------------------------------------------------------------------------
\* C23: the calendar computeStats builds is the intersection of the dates of
\* all instruments with data, in ascending order; it is empty when some two
\* of them share no date
C23_CalendarIsIntersection ==
    (pc = "stats-done" /\ TickersWithData(weekly) # <<>>) =>
        alignedDates = SortAsc(CommonDates)

----------------------------------------------------------------------------
\* the returns of an instrument whose two prices are both present and
\* strictly positive
UsableReturns(t) ==
    {i \in 1..(Len(alignedDates) - 1) :
        LET p0 == CloseAt(weekly[t].ts, alignedDates[i])
            p1 == CloseAt(weekly[t].ts, alignedDates[i + 1])
        IN  /\ IsFinite(p0) /\ p0.v > 0
            /\ IsFinite(p1) /\ p1.v > 0}

\* C25: a weekly return is valid only when both of its prices are present
\* and strictly positive: every other return is recorded as 0, and an
\* instrument is kept only when 30 of its returns are valid in this sense
C25_ValidNeedsBothPricesPositive ==
    (pc = "stats-done" /\ failure = "") =>
        \A k \in 1..Len(universe) :
            /\ \A i \in 1..(Len(alignedDates) - 1) :
                  i \notin UsableReturns(universe[k]) => returns[k][i] = 0
            /\ Cardinality(UsableReturns(universe[k])) >= minObs

----------------------------------------------------------------------------
\* the returns of the instruments of the universe, each computed from that
\* instrument's own series on the calendar
OwnReturns ==
    [k \in 1..Len(universe) |->
        ZeroFilled(WeeklyReturns(weekly[universe[k]].ts, alignedDates))]

\* the returned values are those of the instruments of the universe,
\* position by position
AlignedTo(rets) ==
    LET n == Len(universe) IN
    /\ returns = rets
    /\ \A k \in 1..n : Len(returns[k]) = Len(alignedDates) - 1
    /\ Len(muVec) = n
    /\ \A k \in 1..n :
          muVec[k] = Annualised(SumSeq(rets[k]) \div Len(rets[k]))
    /\ Len(covMat) = n
    /\ \A i \in 1..n :
          /\ Len(covMat[i]) = n
          /\ \A j \in 1..n :
                /\ covMat[i][j] = covMat[j][i]
                /\ covMat[i][j] =
                       (covPair(rets[i], rets[j]) * 52) \div 10000

\* the universe lists the surviving instruments in the order of the fetch
InFetchOrder ==
    LET Survives(t) == t \in Range(universe)
    IN  universe = SelectSeq(TickersWithData(weekly), Survives)

\* C26: after a successful computeStats with n instruments every return
\* series has one entry less than the calendar has dates, muVec has n
\* entries and covMat is n by n and symmetric, position k of each belongs to
\* the k-th instrument of the universe, and the universe keeps the order of
\* the fetch
C26_OutputsAlignedWithUniverse ==
    (pc = "stats-done" /\ failure = "") =>
        /\ Len(universe) >= 1
        /\ AlignedTo(OwnReturns)
        /\ InFetchOrder

\* two instruments with different, moving prices survive while the one
\* fetched between them is dropped
C26_Witness ==
    /\ pc = "stats-done" /\ failure = ""
    /\ universe = <<AMZN, JPM>>
    /\ weekly[GOOG].ok /\ weekly[GOOG].ts # <<>>
    /\ muVec[1] # muVec[2]
    /\ covMat[1][2] # 0
    /\ covMat[1][1] # covMat[2][2]

----------------------------------------------------------------------------
\* C28: computeStats returns a result only when the calendar has at least 31
\* dates; with 3 to 30 dates the check of the calendar passes, no instrument
\* passes the filter, and the call fails for want of usable instruments
C28_ResultNeeds31Dates ==
    pc = "stats-done" =>
        /\ failure = "" => Len(alignedDates) >= 31
        /\ Len(alignedDates) \in 3..30 =>
              /\ failure = "No tickers with sufficient overlapping history."
              /\ universe = <<>> /\ muVec = <<>> /\ covMat = <<>>

\* a calendar of 30 dates on which two instruments have every price: 29
\* valid returns each, and the call fails
C28_Witness ==
    /\ pc = "stats-done"
    /\ Len(alignedDates) = 30
    /\ failure = "No tickers with sufficient overlapping history."
    /\ \A t \in Range(TickersWithData(weekly)) :
          Cardinality(ValidReturns(t)) = 29
    /\ weekly[GOOG].ok /\ weekly[GOOG].ts # <<>>

----------------------------------------------------------------------------
\* a reply of the provider that carries data: a weekly series, or an
\* overview that is not the provider's note about its rate limit
UsableReply(key, data) ==
    IF key[1] = "overview" THEN "Note" \notin DOMAIN data
    ELSE provider.weekly[key[2]].ok /\ data = provider.weekly[key[2]].ts

\* request r ends the step at ticker t having called, in this step,
\* fetchWeeklySeries (fetchOverview): it is up to that call's first await
CalledWeekly(r) ==
    /\ reqs'[r] # reqs[r]
    /\ reqs[r].pc \notin {"weekly-fetch", "weekly-json"}
    /\ reqs'[r].pc \in {"weekly-fetch", "weekly-settled"}

CalledOverview(r) ==
    /\ reqs'[r] # reqs[r]
    /\ reqs[r].pc \notin {"overview-fetch", "overview-json"}
    /\ reqs'[r].pc \in {"overview-fetch", "overview-settled"}

\* request r calls fetchWeeklySeries or fetchOverview while the file exists:
\* the call returns the stored value and does not go to the provider
HitIsServed(r) ==
    /\ (CalledWeekly(r) /\ cache[weeklyKey(TickerAt(reqs'[r]))].ok) =>
          /\ reqs'[r].pc = "weekly-settled"
          /\ reqs'[r].got = cache[weeklyKey(TickerAt(reqs'[r]))]
          /\ cache'[weeklyKey(TickerAt(reqs'[r]))]
                 = cache[weeklyKey(TickerAt(reqs'[r]))]
    /\ (CalledOverview(r) /\ cache[overviewKey(TickerAt(reqs'[r]))].ok) =>
          /\ reqs'[r].pc = "overview-settled"
          /\ reqs'[r].got = cache[overviewKey(TickerAt(reqs'[r]))]
          /\ cache'[overviewKey(TickerAt(reqs'[r]))]
                 = cache[overviewKey(TickerAt(reqs'[r]))]

\* C29: once a reply for a ticker is stored, every later call returns the
\* stored value without calling the provider; and a reply is stored only
\* when it carries usable data, never an error or a rate-limit note
C29_CacheServesOnlyUsableData ==
    [][/\ \A r \in 1..2 : HitIsServed(r)
       /\ \A key \in CacheKeys \ StatsKeys :
             cache'[key] # cache[key] =>
                 /\ cache'[key].ok
                 /\ UsableReply(key, cache'[key].data)]_vars

----------------------------------------------------------------------------
\* C30: when no price fetch is in flight, every row whose ticker has a
\* fetched price shows that price, whatever the order of edits, additions,
\* deletions and fetch completions before; no row shows the price fetched for
\* a different ticker
C30_RowsShowOwnPrice ==
    (pc = "dashboard" /\ pending = <<>>) =>
        \A i \in 1..Len(holdings) :
            norm(holdings[i].ticker) \in DOMAIN priceCache =>
                holdings[i].price = priceCache[norm(holdings[i].ticker)]

============================================================================
